---- MODULE Spec2Model ----
(***************************************************************************)
(* Connection-resilience layer of webchatcomllm.                           *)
(*                                                                         *)
(*  - the browser-side ConnectionManager (static/js/connection-manager.js) *)
(*    together with the part of the browser runtime it drives: WebSocket   *)
(*    objects, setTimeout/setInterval timers and the clock;                *)
(*  - the server-side ManagedConnection (package utils) with the three     *)
(*    goroutines that ClientV2 starts on it (handlers/sse_handler.go).     *)
(***************************************************************************)
EXTENDS Integers, Sequences, FiniteSets, TLC

(***************************************************************************)
(* Bounds of the model.                                                    *)
(***************************************************************************)
MaxMsgs == 2        \* application payloads submitted through send()
MaxQueue == 4       \* longest messageQueue explored
MaxTx == 2          \* transmissions counted per payload
MaxSocks == 2       \* WebSocket objects alive at the same time
MaxTimers == 2      \* pending setTimeout handles
MaxIntervals == 2   \* active setInterval handles
MaxTicks == 1       \* clock advances, in units of pingInterval
QueueSocks == 1     \* the same three in the specification with payloads
QueueTimers == 1
QueueAttempts == 2  \* maxReconnectAttempts passed to the constructor there

(***************************************************************************)
(* ConnectionManager configuration (constructor defaults), milliseconds.   *)
(***************************************************************************)
DefaultMaxReconnectAttempts == 10
initialBackoff == 1000
maxBackoff == 30000
pingInterval == 30000
pongTimeout == 60000

NormalClosure == 1000
GoingAway == 1001
AbnormalClosure == 1006
Codes == {NormalClosure, GoingAway, AbnormalClosure}

States == {"disconnected", "connecting", "connected", "reconnecting", "closed", "failed"}

VARIABLES
    \* ConnectionManager fields
    maxReconnectAttempts,   \* this.config.maxReconnectAttempts
    state, reconnectAttempts, reconnectTimer, pingTimer, lastPong, messageQueue, ws,
    \* browser runtime
    socks,        \* WebSocket objects: slot -> [readyState, established]
    timers,       \* pending setTimeout handles
    intervals,    \* active setInterval handles
    now,          \* Date.now()
    \* outputs of the handler that ran last
    trace,        \* its calls of emit(), ws.send() (those that did not raise),
                  \* setTimeout(), setInterval() and clearInterval(), in order
    ret,          \* return value of its last send() call
    \* history
    nextMsg,      \* payloads submitted so far
    accepted,     \* ids submitted with a provider while the state was not 'connected'
    txCount,      \* id -> number of times the payload was handed to the transport
                  \* (id 0: the ping of the health check, counted up to MaxTx)
    failedEmits,  \* 'failed' events emitted (capped at 2)
    dropFails     \* connect attempts that failed since an established transport
                  \* closed unexpectedly; -1 when none did since the last open

cmVars == <<maxReconnectAttempts, state, reconnectAttempts, reconnectTimer, pingTimer, lastPong, messageQueue, ws>>
rtVars == <<socks, timers, intervals, now>>
outVars == <<trace, ret>>
histVars == <<nextMsg, accepted, txCount, failedEmits, dropFails>>
clientVars == <<cmVars, rtVars, outVars, histVars>>

\* ManagedConnection and ClientV2 (server)
VARIABLES
    mcState,          \* ManagedConnection.state
    ctxDone,          \* mc.ctx has been cancelled
    SendQueue,        \* the channel: [buf, closed]
    connCloses,       \* calls of mc.Conn.Close() so far
    circuitBreaker,   \* mc.circuitBreaker: [state, failureCount, successCount, nextAttempt]
    srvQueue,         \* ClientV2.messageQueue
    pc,               \* goroutine -> where it is
    sending,          \* goroutine -> the payload of the Send it is in
    sendErr,          \* what the Send that returned last returned
    panicked,         \* goroutines that ended in a run-time panic
    toClosed,         \* transitions of mc.state into StateClosed
    closeCalls,       \* calls of Close() that have started
    closeErrs         \* calls of Close() that returned an error

serverVars == <<mcState, ctxDone, SendQueue, connCloses, circuitBreaker, srvQueue,
                pc, sending, sendErr, panicked, toClosed, closeCalls, closeErrs>>

\* package utils: callers of one CircuitBreaker, and one call of Retry
VARIABLES
    mu,        \* cb.mu: the caller that holds it, 0 when it is free
    calls,     \* caller -> the CircuitBreaker method it is in
    cbHist,    \* what was asked of the breaker so far (history)
    retry      \* the Retry call: its locals, and what it did so far

utilVars == <<mu, calls, cbHist, retry>>

\* package handlers: one Client (a WebSocket connection and its goroutines),
\* and the frame the reader of a ClientV2 has read last
VARIABLES
    client,    \* the Client: closed, send, conn, messageQueue, queueMu
    gor,       \* goroutine -> where it is, and its locals
    frames,    \* the text frames readPump has read so far (history)
    handed,    \* the envelopes handed to sendJSON so far (history)
    written,   \* the envelopes written to the transport so far (history)
    dropped,   \* the envelopes sendJSON dropped on a closed Client (history)
    llm,       \* the calls made to the file processor and to the LLM (history)
    inbound,   \* ClientV2: the request of the last frame read (history)
    page       \* the ConnectionManager of script.js: state, messageQueue, and
               \* where its flushMessageQueue is

protoVars == <<client, gor, frames, handed, written, dropped, llm>>
handlerVars == <<protoVars, inbound, page>>

vars == <<clientVars, serverVars, utilVars, handlerVars>>

Min(a, b) == IF a < b THEN a ELSE b

(***************************************************************************)
(* Payloads.  provider is the value of data.provider: absent (undefined),  *)
(* the empty string, or a provider name.                                   *)
(***************************************************************************)
Undefined == "<undefined>"
Providers == {Undefined, "", "OPENAI"}
Ping == [id |-> 0, type |-> "ping", provider |-> Undefined]
Payload(i, p) == [id |-> i, type |-> "message", provider |-> p]

\* JavaScript truthiness of data.provider
Truthy(p) == p # Undefined /\ p # ""

\* JSON.stringify(data): the keys that appear in the text (undefined is omitted)
JSONKeys(data) == {"type"} \cup (IF data.provider # Undefined THEN {"provider"} ELSE {})

\* jsonString.includes('"provider"')
IncludesProvider(data) == "provider" \in JSONKeys(data)

(***************************************************************************)
(* The manager and the runtime as one record, so that handlers compose.    *)
(* lim: the numbers of sockets and timers the specification explores, and  *)
(* whether it keeps the history variable dropFails.                        *)
(***************************************************************************)
Limits(nSocks, nTimers, series) == [socks |-> nSocks, timers |-> nTimers, series |-> series]

World(lim) ==
    [maxReconnectAttempts |-> maxReconnectAttempts,
     state |-> state, reconnectAttempts |-> reconnectAttempts,
     reconnectTimer |-> reconnectTimer, pingTimer |-> pingTimer,
     lastPong |-> lastPong, messageQueue |-> messageQueue, ws |-> ws,
     socks |-> socks, timers |-> timers, intervals |-> intervals, now |-> now,
     trace |-> <<>>, ret |-> "none",
     lim |-> lim, over |-> FALSE]

\* ---- browser runtime ---------------------------------------------------

FreeTimers(w) == (1..w.lim.timers) \ w.timers
FreeIntervals(w) == (1..MaxIntervals) \ w.intervals
FreeSocks(w) == {s \in 1..w.lim.socks : w.socks[s].readyState = "CLOSED"}
Lowest(S) == CHOOSE x \in S : \A y \in S : x <= y

ClosedSock == [readyState |-> "CLOSED", established |-> FALSE]

\* setTimeout(callback, delay): the handle, 0 when the model has none left
setTimeout(w, delay) ==
    IF FreeTimers(w) = {}
    THEN [w |-> [w EXCEPT !.over = TRUE], id |-> 0]
    ELSE [w |-> [w EXCEPT !.timers = @ \cup {Lowest(FreeTimers(w))},
                          !.trace = Append(@, <<"setTimeout", ToString(delay)>>)],
          id |-> Lowest(FreeTimers(w))]

\* clearTimeout(id)
clearTimeout(w, id) == [w EXCEPT !.timers = @ \ {id}]

\* setInterval(callback, pingInterval)
setInterval(w) ==
    IF FreeIntervals(w) = {}
    THEN [w |-> [w EXCEPT !.over = TRUE], id |-> 0]
    ELSE [w |-> [w EXCEPT !.intervals = @ \cup {Lowest(FreeIntervals(w))},
                          !.trace = Append(@, <<"setInterval">>)],
          id |-> Lowest(FreeIntervals(w))]

\* clearInterval(id)
clearInterval(w, id) ==
    [w EXCEPT !.intervals = @ \ {id}, !.trace = Append(@, <<"clearInterval">>)]

\* new WebSocket(url): the object, 0 when the model has none left
newWebSocket(w) ==
    IF FreeSocks(w) = {}
    THEN [w |-> [w EXCEPT !.over = TRUE], s |-> 0]
    ELSE [w |-> [w EXCEPT !.socks[Lowest(FreeSocks(w))] =
                              [readyState |-> "CONNECTING", established |-> FALSE]],
          s |-> Lowest(FreeSocks(w))]

\* WebSocket.close(code, reason) raises InvalidAccessError, and does nothing
\* else, for a code that is neither 1000 nor in 3000..4999
CloseRaises(code) == code # NormalClosure /\ code \notin 3000..4999

\* WebSocket.close(code, reason): starts the closing handshake of a socket that
\* is not yet closing or closed; the close event follows later
wsClose(w, s, code) ==
    IF CloseRaises(code)
    THEN [w EXCEPT !.trace = Append(@, <<"throw", "InvalidAccessError">>)]
    ELSE IF w.socks[s].readyState \in {"CONNECTING", "OPEN"}
         THEN [w EXCEPT !.socks[s].readyState = "CLOSING"]
         ELSE w

\* WebSocket.send() raises InvalidStateError on a socket that is still connecting
WsSendThrows(w) ==
    \/ w.ws = 0
    \/ w.socks[w.ws].readyState = "CONNECTING"

\* ---- ConnectionManager -------------------------------------------------

emit(w, e) == [w EXCEPT !.trace = Append(@, <<"emit">> \o e)]

setState(w, newState) ==
    LET w1 == [w EXCEPT !.state = newState]
    IN IF w.state # newState THEN emit(w1, <<"stateChange", newState>>) ELSE w1

\* Math.pow(2, n)
Pow2(n) == 2 ^ n

\* variant of Backoff without the cap
BackoffUncapped(k) == initialBackoff * Pow2(k - 1)

\* the backoff computed in handleReconnect for attempt k
Backoff(k) == Min(initialBackoff * Pow2(k - 1), maxBackoff)

\* variant of handleReconnect that gives up one attempt later
handleReconnectLate(w) ==
    IF w.reconnectAttempts > w.maxReconnectAttempts
    THEN emit(setState(w, "failed"), <<"failed">>)
    ELSE LET w1 == setState(w, "reconnecting")
             w2 == [w1 EXCEPT !.reconnectAttempts = @ + 1]
             backoff == Backoff(w2.reconnectAttempts)
             t == setTimeout(w2, backoff)
             w3 == [t.w EXCEPT !.reconnectTimer = t.id]
         IN emit(w3, <<"reconnecting">>)

handleReconnect(w) ==
    IF w.reconnectAttempts >= w.maxReconnectAttempts
    THEN emit(setState(w, "failed"), <<"failed">>)
    ELSE LET w1 == setState(w, "reconnecting")
             w2 == [w1 EXCEPT !.reconnectAttempts = @ + 1]
             backoff == Backoff(w2.reconnectAttempts)
             t == setTimeout(w2, backoff)
             w3 == [t.w EXCEPT !.reconnectTimer = t.id]
         IN emit(w3, <<"reconnecting">>)

\* connect(); ctorThrows: whether new WebSocket(url) raises
connect(w, ctorThrows) ==
    IF w.state \in {"connecting", "connected"}
    THEN w
    ELSE LET w1 == setState(w, "connecting")
         IN IF ctorThrows
            THEN handleReconnect(w1)
            ELSE LET n == newWebSocket(w1)
                 IN [n.w EXCEPT !.ws = n.s]

stopPingPong(w) ==
    IF w.pingTimer # 0
    THEN [clearInterval(w, w.pingTimer) EXCEPT !.pingTimer = 0]
    ELSE w

startPingPong(w) ==
    LET i == setInterval(stopPingPong(w))
    IN [i.w EXCEPT !.pingTimer = i.id]

\* variant of send that queues nothing while not connected
sendForgetful(w, data, throws) ==
    IF w.state # "connected"
    THEN [w EXCEPT !.ret = "false"]
    ELSE IF ~IncludesProvider(data)
         THEN [w EXCEPT !.ret = "false"]
         ELSE IF throws \/ WsSendThrows(w)
              THEN [w EXCEPT !.messageQueue = IF Truthy(data.provider)
                                              THEN Append(@, data) ELSE @,
                             !.ret = "false"]
              ELSE [w EXCEPT !.trace = Append(@, <<"ws.send", ToString(data.id)>>),
                             !.ret = "true"]

\* variant of send that queues whatever it is given while not connected
sendUnchecked(w, data, throws) ==
    IF w.state # "connected"
    THEN [w EXCEPT !.messageQueue = Append(@, data), !.ret = "false"]
    ELSE IF ~IncludesProvider(data)
         THEN [w EXCEPT !.ret = "false"]
         ELSE IF throws \/ WsSendThrows(w)
              THEN [w EXCEPT !.messageQueue = IF Truthy(data.provider)
                                              THEN Append(@, data) ELSE @,
                             !.ret = "false"]
              ELSE [w EXCEPT !.trace = Append(@, <<"ws.send", ToString(data.id)>>),
                             !.ret = "true"]

\* send(data); throws: whether ws.send() raises on this call
send(w, data, throws) ==
    IF w.state # "connected"
    THEN [w EXCEPT !.messageQueue = IF Truthy(data.provider) THEN Append(@, data) ELSE @,
                   !.ret = "false"]
    ELSE IF ~IncludesProvider(data)
         THEN [w EXCEPT !.ret = "false"]
         ELSE IF throws \/ WsSendThrows(w)
              THEN [w EXCEPT !.messageQueue = IF Truthy(data.provider)
                                              THEN Append(@, data) ELSE @,
                             !.ret = "false"]
              ELSE [w EXCEPT !.trace = Append(@, <<"ws.send", ToString(data.id)>>),
                             !.ret = "true"]

HasProvider(msg) == Truthy(msg.provider)

RECURSIVE Resend(_, _, _, _)
\* validMessages.forEach from index i on; outs[i]: whether ws.send() raises
Resend(w, validMessages, i, outs) ==
    IF i > Len(validMessages)
    THEN w
    ELSE LET w1 == send(w, validMessages[i], outs[i])
             w2 == IF w1.ret # "true"
                   THEN [w1 EXCEPT !.messageQueue = Append(@, validMessages[i])]
                   ELSE w1
         IN Resend(w2, validMessages, i + 1, outs)

flushMessageQueue(w, outs) ==
    IF Len(w.messageQueue) = 0
    THEN w
    ELSE LET validMessages == SelectSeq(w.messageQueue, HasProvider)
             w1 == [w EXCEPT !.messageQueue = <<>>]
         IN [Resend(w1, validMessages, 1, outs) EXCEPT !.ret = w.ret]

\* variant of handleOpen that keeps the attempt counter
handleOpenKeepsCount(w, outs) ==
    LET w1 == setState(w, "connected")
        w2 == [w1 EXCEPT !.lastPong = w.now]
        w3 == startPingPong(w2)
        w4 == flushMessageQueue(w3, outs)
    IN emit(w4, <<"connected">>)

handleOpen(w, outs) ==
    LET w1 == setState(w, "connected")
        w2 == [w1 EXCEPT !.reconnectAttempts = 0, !.lastPong = w.now]
        w3 == startPingPong(w2)
        w4 == flushMessageQueue(w3, outs)
    IN emit(w4, <<"connected">>)

handleMessage(w, kind) ==
    CASE kind = "pong" -> [w EXCEPT !.lastPong = w.now]
      [] kind = "message" -> emit(w, <<"message">>)
      [] OTHER -> w   \* JSON.parse raised: logged only

\* variant of handleClose that reconnects whatever the close code
handleCloseAnyCode(w, code) ==
    LET w1 == setState(stopPingPong(w), "disconnected")
        w2 == handleReconnect(w1)
    IN emit(w2, <<"disconnected", ToString(code)>>)

handleClose(w, code) ==
    LET w1 == setState(stopPingPong(w), "disconnected")
        w2 == IF code # NormalClosure THEN handleReconnect(w1) ELSE w1
    IN emit(w2, <<"disconnected", ToString(code)>>)

handleError(w) == emit(w, <<"error">>)

\* variant of pingTick that closes with a code of the application's range
pingTickPrivate(w, throws) ==
    IF w.state # "connected"
    THEN w
    ELSE IF w.now - w.lastPong > pongTimeout
         THEN wsClose(w, w.ws, 4000)
         ELSE send(w, Ping, throws)

\* the setInterval callback of startPingPong: this.ws.close(1006, 'Pong
\* timeout') when the pong is overdue, else this.send({ type: 'ping' })
pingTick(w, throws) ==
    IF w.state # "connected"
    THEN w
    ELSE IF w.now - w.lastPong > pongTimeout
         THEN wsClose(w, w.ws, AbnormalClosure)
         ELSE send(w, Ping, throws)

close(w) ==
    LET w1 == stopPingPong(w)
        w2 == IF w1.reconnectTimer # 0 THEN clearTimeout(w1, w1.reconnectTimer) ELSE w1
        w3 == IF w2.ws # 0 THEN wsClose(w2, w2.ws, NormalClosure) ELSE w2
    IN setState(w3, "closed")

\* ---- history -----------------------------------------------------------

RECURSIVE CountIn(_, _)
CountIn(seq, x) ==
    IF seq = <<>> THEN 0
    ELSE (IF Head(seq) = x THEN 1 ELSE 0) + CountIn(Tail(seq), x)

\* how often payload i was handed to the transport in trace tr
Sent(tr, i) == CountIn(tr, <<"ws.send", ToString(i)>>)

\* the state after a handler: the record it returns, and the history
Install(w) ==
    /\ ~w.over
    /\ Len(w.messageQueue) <= MaxQueue
    /\ \A i \in 1..MaxMsgs : txCount[i] + Sent(w.trace, i) <= MaxTx
    /\ state' = w.state
    /\ reconnectAttempts' = w.reconnectAttempts
    /\ reconnectTimer' = w.reconnectTimer
    /\ pingTimer' = w.pingTimer
    /\ lastPong' = w.lastPong
    /\ messageQueue' = w.messageQueue
    /\ ws' = w.ws
    /\ socks' = w.socks
    /\ timers' = w.timers
    /\ intervals' = w.intervals
    /\ trace' = w.trace
    /\ ret' = w.ret
    /\ txCount' = [i \in 0..MaxMsgs |-> Min(txCount[i] + Sent(w.trace, i), MaxTx)]
    /\ failedEmits' = Min(failedEmits + CountIn(w.trace, <<"emit", "failed">>), 2)
    /\ UNCHANGED <<maxReconnectAttempts, now, serverVars, handlerVars, utilVars>>

\* ---- actions -----------------------------------------------------------

\* dropFails after a connect attempt has failed
AttemptFailed(lim) ==
    IF lim.series /\ dropFails >= 0
    THEN Min(dropFails + 1, maxReconnectAttempts + 1)
    ELSE dropFails

\* the application calls connect()
Connect(lim) ==
    \E ctorThrows \in BOOLEAN :
        /\ Install(connect(World(lim), ctorThrows))
        /\ dropFails' = IF ctorThrows /\ state \notin {"connecting", "connected"}
                        THEN AttemptFailed(lim) ELSE dropFails
        /\ UNCHANGED <<nextMsg, accepted>>

\* the application calls connect() on a manager it has just constructed
ConnectOnce(lim) ==
    /\ state = "disconnected" /\ ws = 0 /\ reconnectAttempts = 0
    /\ Connect(lim)

\* the application calls send(payload) with its next payload
Send(lim) ==
    /\ nextMsg < MaxMsgs
    /\ \E p \in Providers, throws \in BOOLEAN :
        /\ Install(send(World(lim), Payload(nextMsg + 1, p), throws))
        /\ nextMsg' = nextMsg + 1
        /\ accepted' = IF state # "connected" /\ Truthy(p)
                       THEN accepted \cup {nextMsg + 1} ELSE accepted
        /\ UNCHANGED dropFails

\* the application calls close()
Close(lim) ==
    /\ Install(close(World(lim)))
    /\ UNCHANGED <<nextMsg, accepted, dropFails>>

\* the manager as the open event of socket s finds it
Opened(lim, s) ==
    [World(lim) EXCEPT !.socks[s] = [readyState |-> "OPEN", established |-> TRUE]]

\* open event of socket s
SockOpen(lim, s) ==
    /\ socks[s].readyState = "CONNECTING"
    /\ \E outs \in [1..Len(SelectSeq(messageQueue, HasProvider)) -> BOOLEAN] :
        Install(handleOpen(Opened(lim, s), outs))
    /\ dropFails' = -1
    /\ UNCHANGED <<nextMsg, accepted>>

\* the close codes the close event of socket s can carry: a socket that never
\* opened reports an abnormal closure
CloseCodes(s) == IF socks[s].established THEN Codes ELSE {AbnormalClosure}

\* the manager as the close event of socket s finds it
Dropped(lim, s) == [World(lim) EXCEPT !.socks[s] = ClosedSock]

\* close event of socket s
SockClose(lim, s, code) ==
    /\ socks[s].readyState # "CLOSED"
    /\ code \in CloseCodes(s)
    /\ Install(handleClose(Dropped(lim, s), code))
    /\ dropFails' = IF ~socks[s].established THEN AttemptFailed(lim)
                    ELSE IF lim.series /\ code # NormalClosure THEN 0
                    ELSE dropFails
    /\ UNCHANGED <<nextMsg, accepted>>

\* message event of socket s
SockMessage(lim, s, kind) ==
    /\ socks[s].readyState \in {"OPEN", "CLOSING"}
    /\ socks[s].established
    /\ Install(handleMessage(World(lim), kind))
    /\ UNCHANGED <<nextMsg, accepted, dropFails>>

\* error event of socket s
SockError(lim, s) ==
    /\ socks[s].readyState # "CLOSED"
    /\ Install(handleError(World(lim)))
    /\ UNCHANGED <<nextMsg, accepted, dropFails>>

\* the manager as the reconnect timeout t finds it when it fires
Fired(lim, t) == [World(lim) EXCEPT !.timers = @ \ {t}]

\* a reconnect timeout fires and runs connect()
TimerFire(lim, t) ==
    /\ t \in timers
    /\ \E ctorThrows \in BOOLEAN :
        /\ Install(connect(Fired(lim, t), ctorThrows))
        /\ dropFails' = IF ctorThrows /\ state \notin {"connecting", "connected"}
                        THEN AttemptFailed(lim) ELSE dropFails
    /\ UNCHANGED <<nextMsg, accepted>>

\* the health-check interval i fires
PingTick(lim, i) ==
    /\ i \in intervals
    /\ \E throws \in BOOLEAN : Install(pingTick(World(lim), throws))
    /\ UNCHANGED <<nextMsg, accepted, dropFails>>

\* pingInterval milliseconds pass
Tick ==
    /\ now + pingInterval <= MaxTicks * pingInterval
    /\ now' = now + pingInterval
    /\ trace' = <<>> /\ ret' = "none"
    /\ UNCHANGED <<cmVars, socks, timers, intervals, histVars, serverVars, handlerVars, utilVars>>

ScriptMsgs == 2    \* payloads the page submits
ScriptPings == 1   \* pings the page's manager sends through send()
MaxResends == 4    \* iterations of the flush loop explored
ScriptMaxReconnectAttempts == 10

\* the ConnectionManager of script.js after its constructor; socket: this.ws
\* is a WebSocket whose close event is still to come; called: the page has
\* made its one call of connect(); pc, start and attempts follow the flush
\* (the queue length when it began, the send() calls it has made since); a
\* ping is the payload 0
ScriptManager ==
    [state |-> "disconnected", reconnectAttempts |-> 0, reconnectTimer |-> FALSE,
     socket |-> FALSE, messageQueue |-> <<>>, sent |-> <<>>, next |-> 0,
     pings |-> 0, called |-> FALSE, pc |-> "idle", start |-> 0, attempts |-> 0]

\* new ConnectionManager(config)
Constructed(attempts) ==
    /\ maxReconnectAttempts = attempts
    /\ state = "disconnected"
    /\ reconnectAttempts = 0
    /\ reconnectTimer = 0
    /\ pingTimer = 0
    /\ lastPong = 0
    /\ messageQueue = <<>>
    /\ ws = 0
    /\ socks = [s \in 1..MaxSocks |-> ClosedSock]
    /\ timers = {}
    /\ intervals = {}
    /\ now = 0
    /\ trace = <<>>
    /\ ret = "none"
    /\ nextMsg = 0
    /\ accepted = {}
    /\ txCount = [i \in 0..MaxMsgs |-> 0]
    /\ failedEmits = 0
    /\ dropFails = -1
    /\ page = ScriptManager

(***************************************************************************)
(* Server: utils.ManagedConnection and the goroutines of ClientV2.         *)
(***************************************************************************)
SendQueueCap == 1   \* capacity of the SendQueue channel explored
MaxWorkers == 1     \* processMessage goroutines of a ClientV2 alive at a time

\* NewManagedConnection: NewCircuitBreaker(5, time.Minute), in milliseconds
DefaultThreshold == 5
Minute == 60000

\* NewCircuitBreaker(threshold, timeout)
NewCircuitBreaker(threshold, timeout) ==
    [state |-> "closed", failureCount |-> 0, successCount |-> 0, nextAttempt |-> 0,
     threshold |-> threshold, timeout |-> timeout]

Reader == "readPump"
Writer == "writePump"
Health == "healthCheck"
\* the k-th goroutine started by `go c.processMessage(req)` that is alive
Worker(k) == "processMessage" \o ToString(k)
Workers == {Worker(k) : k \in 1..MaxWorkers}
Tasks == {Reader, Writer, Health} \cup Workers
\* the goroutine of ManagedConnection.StartHealthCheck
Checker == "StartHealthCheck"

\* RequestPayload as json.Unmarshal fills it: files is len(req.Files);
\* json is FALSE for a payload on which Unmarshal returns an error
Request(type, provider, prompt, files) ==
    [json |-> TRUE, type |-> type, provider |-> provider, prompt |-> prompt,
     files |-> files]
Malformed == [json |-> FALSE, type |-> "", provider |-> "", prompt |-> "", files |-> 0]
NoRequest == [json |-> FALSE, type |-> "none", provider |-> "", prompt |-> "", files |-> 0]
PingRequest == Request("ping", "", "", 0)

\* ClientV2.handleMessage(payload): TRUE when it ends in `go c.processMessage`,
\* FALSE when it ends in sendError
handleMessageV2(req) == req.json /\ req.provider # ""

\* the requests a ClientV2 is sent
RequestsV2 == {PingRequest, Request("message", "OPENAI", "hi", 0)}

\* variant of Allow that admits every call
AllowAlways(cb, t) ==
    CASE cb.state = "open" ->
            IF t > cb.nextAttempt
            THEN [ok |-> TRUE, cb |-> [cb EXCEPT !.state = "half-open", !.successCount = 0]]
            ELSE [ok |-> TRUE, cb |-> cb]
      [] OTHER -> [ok |-> TRUE, cb |-> cb]

\* variant of Allow that keeps the success counter on entering half-open
AllowKeepsCount(cb, t) ==
    CASE cb.state = "closed" -> [ok |-> TRUE, cb |-> cb]
      [] cb.state = "open" ->
            IF t > cb.nextAttempt
            THEN [ok |-> TRUE, cb |-> [cb EXCEPT !.state = "half-open"]]
            ELSE [ok |-> FALSE, cb |-> cb]
      [] cb.state = "half-open" -> [ok |-> TRUE, cb |-> cb]
      [] OTHER -> [ok |-> FALSE, cb |-> cb]

\* CircuitBreaker.Allow() at time t: the answer and the breaker afterwards
Allow(cb, t) ==
    CASE cb.state = "closed" -> [ok |-> TRUE, cb |-> cb]
      [] cb.state = "open" ->
            IF t > cb.nextAttempt
            THEN [ok |-> TRUE, cb |-> [cb EXCEPT !.state = "half-open", !.successCount = 0]]
            ELSE [ok |-> FALSE, cb |-> cb]
      [] cb.state = "half-open" -> [ok |-> TRUE, cb |-> cb]
      [] OTHER -> [ok |-> FALSE, cb |-> cb]

\* where a goroutine continues when its Send has returned
AfterSend(t) ==
    CASE t = Reader -> "read"
      [] t = Health -> "tick"
      [] OTHER -> "idle"

\* an unrecovered panic of a goroutine started with `go` ends the process; the
\* handler goroutine (readPump) is recovered by net/http
Alive == panicked \cap ({Writer, Health} \cup Workers) = {}

Goto(t, label) == pc' = [pc EXCEPT ![t] = label]

\* the Send of goroutine t returns: t goes on, its payload is no longer held
Return(t) ==
    /\ pc' = [pc EXCEPT ![t] = AfterSend(t)]
    /\ sending' = [sending EXCEPT ![t] = "none"]

\* ManagedConnection.Close(), first statement: mc.setState(StateClosed)
CloseSetState(t) ==
    /\ Alive /\ pc[t] = "Close"
    /\ mcState' = "CLOSED"
    /\ toClosed' = IF mcState # "CLOSED" THEN toClosed + 1 ELSE toClosed
    /\ closeCalls' = closeCalls + 1
    /\ Goto(t, "cancel")
    /\ UNCHANGED <<ctxDone, SendQueue, connCloses, circuitBreaker, srvQueue, sending,
                   sendErr, panicked, closeErrs, clientVars, handlerVars, utilVars>>

\* mc.cancel()
CloseCancel(t) ==
    /\ Alive /\ pc[t] = "cancel"
    /\ ctxDone' = TRUE
    /\ Goto(t, "closeChan")
    /\ UNCHANGED <<mcState, SendQueue, connCloses, circuitBreaker, srvQueue, sending,
                   sendErr, panicked, toClosed, closeCalls, closeErrs, clientVars, handlerVars, utilVars>>

\* close(mc.SendQueue): closing a closed channel panics
CloseChan(t) ==
    /\ Alive /\ pc[t] = "closeChan"
    /\ IF SendQueue.closed
       THEN /\ panicked' = panicked \cup {t}
            /\ Goto(t, "panic: close of closed channel")
            /\ UNCHANGED SendQueue
       ELSE /\ SendQueue' = [SendQueue EXCEPT !.closed = TRUE]
            /\ Goto(t, "closeConn")
            /\ UNCHANGED panicked
    /\ UNCHANGED <<mcState, ctxDone, connCloses, circuitBreaker, srvQueue, sending,
                   sendErr, toClosed, closeCalls, closeErrs, clientVars, handlerVars, utilVars>>

\* return mc.Conn.Close(): the second close of a net.Conn returns an error
CloseConn(t) ==
    /\ Alive /\ pc[t] = "closeConn"
    /\ connCloses' = connCloses + 1
    /\ closeErrs' = IF connCloses > 0 THEN closeErrs + 1 ELSE closeErrs
    /\ Goto(t, "done")
    /\ UNCHANGED <<mcState, ctxDone, SendQueue, circuitBreaker, srvQueue, sending,
                   sendErr, panicked, toClosed, closeCalls, clientVars, handlerVars, utilVars>>

\* where goroutine t is after a panic: readPump's `defer c.managedConn.Close()`
\* runs while the panic unwinds; the other goroutines have no deferred call
\* that touches the connection and end the process
Unwind(t, panic) == IF t = Reader THEN "Close" ELSE panic

\* ManagedConnection.Send: if mc.GetState() != StateConnected, under mc.stateMu
SendCheck(t) ==
    /\ Alive /\ pc[t] = "Send"
    /\ IF mcState # "CONNECTED"
       THEN /\ sendErr' = "ErrNotConnected"
            /\ Return(t)
       ELSE Goto(t, "Allow") /\ UNCHANGED <<sendErr, sending>>
    /\ UNCHANGED <<mcState, ctxDone, SendQueue, connCloses, circuitBreaker, srvQueue,
                   panicked, toClosed, closeCalls, closeErrs, clientVars,
                   handlerVars, utilVars>>

\* ManagedConnection.Send: if !mc.circuitBreaker.Allow(), under cb.mu
SendAllow(t) ==
    /\ Alive /\ pc[t] = "Allow"
    /\ LET a == Allow(circuitBreaker, now)
       IN /\ circuitBreaker' = a.cb
          /\ IF a.ok
             THEN Goto(t, "select") /\ UNCHANGED <<sendErr, sending>>
             ELSE /\ sendErr' = "ErrCircuitOpen"
                  /\ Return(t)
    /\ UNCHANGED <<mcState, ctxDone, SendQueue, connCloses, srvQueue,
                   panicked, toClosed, closeCalls, closeErrs, clientVars, handlerVars, utilVars>>

\* ManagedConnection.Send, the select: the cases that are ready are chosen among
SendSelect(t) ==
    /\ Alive /\ pc[t] = "select"
    /\ \/ /\ SendQueue.closed            \* send on a closed channel
          /\ panicked' = panicked \cup {t}
          /\ Goto(t, Unwind(t, "panic: send on closed channel"))
          /\ UNCHANGED <<SendQueue, sendErr, sending>>
       \/ /\ ~SendQueue.closed
          /\ Len(SendQueue.buf) < SendQueueCap
          /\ SendQueue' = [SendQueue EXCEPT !.buf = Append(@, sending[t])]
          /\ sendErr' = "nil"
          /\ Return(t)
          /\ UNCHANGED panicked
       \/ /\ ~SendQueue.closed           \* time.After(5 * time.Second)
          /\ Len(SendQueue.buf) >= SendQueueCap
          /\ sendErr' = "ErrSendTimeout"
          /\ Return(t)
          /\ UNCHANGED <<SendQueue, panicked>>
       \/ /\ ctxDone
          /\ sendErr' = "ErrConnectionClosed"
          /\ Return(t)
          /\ UNCHANGED <<SendQueue, panicked>>
    /\ UNCHANGED <<mcState, ctxDone, connCloses, circuitBreaker, srvQueue,
                   toClosed, closeCalls, closeErrs, clientVars, handlerVars, utilVars>>

\* readPump: ReadMessage returns an error; the deferred Close() runs
ReadError ==
    /\ Alive /\ pc[Reader] = "read"
    /\ Goto(Reader, "Close")
    /\ UNCHANGED <<mcState, ctxDone, SendQueue, connCloses, circuitBreaker, srvQueue,
                   sending, sendErr, panicked, toClosed, closeCalls, closeErrs, clientVars, handlerVars, utilVars>>

\* the slots of processMessage goroutines that are free
IdleWorkers == {k \in 1..MaxWorkers : pc[Worker(k)] = "idle"}

\* readPump: a frame arrives; handleMessage answers a bad one with sendError and
\* hands a good one to `go c.processMessage`, a new goroutine (at most
\* MaxWorkers of them are explored at a time)
ReadFrame(req) ==
    /\ Alive /\ pc[Reader] = "read"
    /\ inbound' = req
    /\ IF handleMessageV2(req)
       THEN /\ IdleWorkers # {}
            /\ Goto(Worker(CHOOSE k \in IdleWorkers : \A j \in IdleWorkers : k <= j),
                    "work")
            /\ UNCHANGED sending
       ELSE /\ sending' = [sending EXCEPT ![Reader] = "error"]
            /\ Goto(Reader, "Send")
    /\ UNCHANGED <<mcState, ctxDone, SendQueue, connCloses, circuitBreaker, srvQueue,
                   sendErr, panicked, toClosed, closeCalls, closeErrs, clientVars, protoVars, page, utilVars>>

\* processMessage of goroutine w: the LLM call returns; sendJSON or sendError
Respond(w, ok) ==
    /\ Alive /\ pc[w] = "work"
    /\ sending' = [sending EXCEPT ![w] = IF ok THEN "completed" ELSE "error"]
    /\ Goto(w, "Send")
    /\ UNCHANGED <<mcState, ctxDone, SendQueue, connCloses, circuitBreaker, srvQueue,
                   sendErr, panicked, toClosed, closeCalls, closeErrs, clientVars, handlerVars, utilVars>>

\* writePump: case message, ok := <-c.managedConn.SendQueue
WriterRecv ==
    /\ Alive /\ pc[Writer] = "recv"
    /\ IF SendQueue.buf # <<>>
       THEN /\ SendQueue' = [SendQueue EXCEPT !.buf = Tail(@)]
            /\ sending' = [sending EXCEPT ![Writer] = Head(SendQueue.buf)]
            /\ Goto(Writer, "writeMessage")
       ELSE /\ SendQueue.closed
            /\ Goto(Writer, "Close")
            /\ UNCHANGED <<SendQueue, sending>>
    /\ UNCHANGED <<mcState, ctxDone, connCloses, circuitBreaker, srvQueue, sendErr,
                   panicked, toClosed, closeCalls, closeErrs, clientVars, handlerVars, utilVars>>

\* writePump: c.writeMessage(message) returns; a write on a closed transport
\* returns an error
WriterWrite(writeOk) ==
    /\ Alive /\ pc[Writer] = "writeMessage"
    /\ IF writeOk /\ connCloses = 0
       THEN Goto(Writer, "recv") /\ sending' = [sending EXCEPT ![Writer] = "none"]
       ELSE Goto(Writer, "append") /\ UNCHANGED sending
    /\ UNCHANGED <<mcState, ctxDone, SendQueue, connCloses, circuitBreaker, srvQueue,
                   sendErr, panicked, toClosed, closeCalls, closeErrs,
                   clientVars, handlerVars, utilVars>>

\* writePump after a failed write: c.messageQueue = append(...) under c.mu;
\* return, and the deferred Close()
WriterAppend ==
    /\ Alive /\ pc[Writer] = "append"
    /\ srvQueue' = Append(srvQueue, sending[Writer])
    /\ sending' = [sending EXCEPT ![Writer] = "none"]
    /\ Goto(Writer, "Close")
    /\ UNCHANGED <<mcState, ctxDone, SendQueue, connCloses, circuitBreaker,
                   sendErr, panicked, toClosed, closeCalls, closeErrs, clientVars,
                   handlerVars, utilVars>>

\* healthCheck: the ticker fires; inactive: time.Since(lastActivity) > 5 minutes
HealthTick(inactive) ==
    /\ Alive /\ pc[Health] = "tick"
    /\ IF inactive
       THEN Goto(Health, "Close") /\ UNCHANGED sending
       ELSE /\ sending' = [sending EXCEPT ![Health] = "ping"]
            /\ Goto(Health, "Send")
    /\ UNCHANGED <<mcState, ctxDone, SendQueue, connCloses, circuitBreaker, srvQueue,
                   sendErr, panicked, toClosed, closeCalls, closeErrs, clientVars, handlerVars, utilVars>>

(***************************************************************************)
(* Package handlers: Client, the protocol handler of one WebSocket         *)
(* connection, and its goroutines readPump, writePump, healthCheck and     *)
(* one processMessage per accepted request.                                *)
(***************************************************************************)
MaxFrames == 2      \* text frames read on one connection
SendCap == 1        \* capacity of the channel Client.send explored
MaxFilesPerRequest == 50

\* the goroutine that `go c.processMessage(req)` starts for frame k
Processor(k) == ToString(k)
Goroutines == {Reader, Writer, Health} \cup {Processor(k) : k \in 1..MaxFrames}

\* ResponsePayload and ProgressPayload, as one record
Envelope(type, status, response, provider, message, current, total) ==
    [type |-> type, status |-> status, response |-> response, provider |-> provider,
     message |-> message, current |-> current, total |-> total]
Pong == Envelope("pong", "ok", "", "", "", 0, 0)
ErrorResponse(message) == Envelope("message", "error", message, "", "", 0, 0)
Completed(response, provider) ==
    Envelope("message", "completed", response, provider, "", 0, 0)
Progress(message, current, total) ==
    Envelope("progress", "processing", "", "", message, current, total)

ErrInvalidPayload == "Payload inválido: "
ErrNoProvider ==
    "Provedor LLM não especificado. Selecione um provedor e tente novamente."
ErrEmptyMessage == "Mensagem vazia. Digite algo ou anexe arquivos."
ErrTooManyFiles == "Número máximo de arquivos excedido. Limite: 50"
ErrTotalSize == "tamanho total dos arquivos excede o limite de 50 MB"
ErrGetClient == "GetClient: err.Error()"
ErrSendPrompt == "Erro ao processar resposta do LLM: "

\* variant of Client.handleMessage without the limit on the number of files
ClientHandleMessageNoLimit(req) ==
    CASE ~req.json -> [reply |-> <<ErrorResponse(ErrInvalidPayload)>>, spawn |-> FALSE]
      [] req.json /\ req.type = "ping" -> [reply |-> <<Pong>>, spawn |-> FALSE]
      [] req.json /\ req.type # "ping" /\ req.provider = "" ->
            [reply |-> <<ErrorResponse(ErrNoProvider)>>, spawn |-> FALSE]
      [] req.json /\ req.type # "ping" /\ req.provider # ""
            /\ req.prompt = "" /\ req.files = 0 ->
            [reply |-> <<ErrorResponse(ErrEmptyMessage)>>, spawn |-> FALSE]
      [] OTHER -> [reply |-> <<>>, spawn |-> TRUE]

\* variant of Client.handleMessage that takes an undecodable payload for an
\* empty request
ClientHandleMessageLenient(req) ==
    CASE req.type = "ping" -> [reply |-> <<Pong>>, spawn |-> FALSE]
      [] req.type # "ping" /\ req.provider = "" ->
            [reply |-> <<ErrorResponse(ErrNoProvider)>>, spawn |-> FALSE]
      [] req.type # "ping" /\ req.provider # ""
            /\ req.prompt = "" /\ req.files = 0 ->
            [reply |-> <<ErrorResponse(ErrEmptyMessage)>>, spawn |-> FALSE]
      [] req.type # "ping" /\ req.provider # ""
            /\ ~(req.prompt = "" /\ req.files = 0)
            /\ req.files > MaxFilesPerRequest ->
            [reply |-> <<ErrorResponse(ErrTooManyFiles)>>, spawn |-> FALSE]
      [] OTHER -> [reply |-> <<>>, spawn |-> TRUE]

\* Client.handleMessage(payload): the envelope it hands to sendJSON, if any,
\* and whether it ends in `go c.processMessage(req)`
ClientHandleMessage(req) ==
    CASE ~req.json -> [reply |-> <<ErrorResponse(ErrInvalidPayload)>>, spawn |-> FALSE]
      [] req.json /\ req.type = "ping" -> [reply |-> <<Pong>>, spawn |-> FALSE]
      [] req.json /\ req.type # "ping" /\ req.provider = "" ->
            [reply |-> <<ErrorResponse(ErrNoProvider)>>, spawn |-> FALSE]
      [] req.json /\ req.type # "ping" /\ req.provider # ""
            /\ req.prompt = "" /\ req.files = 0 ->
            [reply |-> <<ErrorResponse(ErrEmptyMessage)>>, spawn |-> FALSE]
      [] req.json /\ req.type # "ping" /\ req.provider # ""
            /\ ~(req.prompt = "" /\ req.files = 0)
            /\ req.files > MaxFilesPerRequest ->
            [reply |-> <<ErrorResponse(ErrTooManyFiles)>>, spawn |-> FALSE]
      [] OTHER -> [reply |-> <<>>, spawn |-> TRUE]

\* variant of Runner: processMessage is called on the reader's goroutine
RunnerInline(k) == Reader

\* the goroutine that runs processMessage for frame k: a new one
Runner(k) == Processor(k)

\* what fn-like collaborators return: the file processor, GetClient, SendPrompt
Ok(text) == [ok |-> TRUE, text |-> text]
Failed == [ok |-> FALSE, text |-> ""]
Outcomes == {Ok("hello"), Failed}

\* what the checks of processFilesAdvanced find for one file before it calls
\* ProcessFile: the file is taken; its base64 does not decode; it has more
\* than MaxFileSize bytes and is neither image nor pdf; the total of the
\* files so far is over MaxTotalUploadSize
Taken == [ok |-> TRUE, text |-> ""]
NotBase64 == [ok |-> FALSE, text |-> "erro ao decodificar base64"]
TooLarge == [ok |-> FALSE, text |-> "tamanho excede"]
OverTotal == [ok |-> FALSE, text |-> "MaxTotalUploadSize"]
LeftOut == {NotBase64, TooLarge}
FileChecks == {Taken, OverTotal} \cup LeftOut

\* processMessage and processFilesAdvanced, at label `at`, for request req with
\* i files begun, when the checks or the collaborator called at this label
\* return out: the envelope handed to sendJSON, the call that has returned out
\* (failedFiles for a file that a check leaves out; ProcessFile, whose error
\* only leaves the file out as well; processFilesAdvanced when it returns its
\* error), the next label
processMessage(at, req, i, out) ==
    CASE at = "processMessage" ->
            IF req.files > 0
            THEN [reply |-> <<Progress("Iniciando processamento dos arquivos...",
                                       0, req.files)>>,
                  call |-> "", next |-> "files", i |-> 0]
            ELSE [reply |-> <<>>, call |-> "", next |-> "GetClient", i |-> 0]
      [] at = "files" ->
            IF i < req.files
            THEN [reply |-> <<Progress("Processando arquivo", i + 1, req.files)>>,
                  call |-> "", next |-> "decode", i |-> i + 1]
            ELSE [reply |-> <<Progress("Gerando contexto dos arquivos...",
                                       req.files, req.files)>>,
                  call |-> "", next |-> "GetClient", i |-> i]
      [] at = "decode" ->
            IF out.ok
            THEN [reply |-> <<>>, call |-> "", next |-> "ProcessFile", i |-> i]
            ELSE IF out = OverTotal
                 THEN [reply |-> <<ErrorResponse(ErrTotalSize)>>,
                       call |-> "processFilesAdvanced", next |-> "return", i |-> i]
                 ELSE [reply |-> <<>>, call |-> "failedFiles", next |-> "files", i |-> i]
      [] at = "ProcessFile" ->
            [reply |-> <<>>, call |-> "ProcessFile", next |-> "files", i |-> i]
      [] at = "GetClient" ->
            IF out.ok
            THEN [reply |-> <<>>, call |-> "GetClient", next |-> "SendPrompt", i |-> i]
            ELSE [reply |-> <<ErrorResponse(ErrGetClient)>>,
                  call |-> "GetClient", next |-> "return", i |-> i]
      [] OTHER ->
            IF out.ok
            THEN [reply |-> <<Completed(out.text, req.provider)>>,
                  call |-> "SendPrompt", next |-> "return", i |-> i]
            ELSE [reply |-> <<ErrorResponse(ErrSendPrompt)>>,
                  call |-> "SendPrompt", next |-> "return", i |-> i]

ProcessLabels ==
    {"processMessage", "files", "decode", "ProcessFile", "GetClient", "SendPrompt"}

\* variant of ClientClose without the test of c.closed
ClientCloseUnguarded(c) ==
    [c EXCEPT !.closed = TRUE, !.send.closes = @ + 1, !.conn.closes = @ + 1]

\* Client.close(), under c.mu
ClientClose(c) ==
    IF c.closed
    THEN c
    ELSE [c EXCEPT !.closed = TRUE, !.send.closes = @ + 1, !.conn.closes = @ + 1]

\* the locals of a goroutine at label l
Local(l) == [pc |-> l, req |-> 0, env |-> 0, after |-> "", i |-> 0]

\* where a goroutine is once its handling of a frame has returned
Home(g) == IF g = Reader THEN "read" ELSE "done"

PanicSend == "panic: send on closed channel"

\* readPump after its panic has run the deferred close() and net/http has
\* recovered it
Recovered == "http: panic serving"

\* an unrecovered panic of a goroutine started with `go` ends the process; the
\* handler goroutine (readPump) is recovered by net/http
Running == \A g \in Goroutines \ {Reader} : gor[g].pc # PanicSend

\* goroutine g calls c.sendJSON(e) for frame k and goes on at label after
CallSendJSON(g, e, k, after, i) ==
    /\ handed' = Append(handed, [env |-> e, req |-> k, by |-> g])
    /\ gor' = [gor EXCEPT ![g] = [pc |-> "sendJSON", req |-> k,
                                  env |-> Len(handed) + 1, after |-> after, i |-> i]]

\* readPump: ReadMessage returns a text frame; handleMessage(message)
ClientReadFrame(req) ==
    /\ Running /\ gor[Reader].pc = "read"
    /\ Len(frames) < MaxFrames
    /\ frames' = Append(frames, req)
    /\ LET k == Len(frames) + 1
           h == ClientHandleMessage(req)
       IN IF h.reply # <<>>
          THEN CallSendJSON(Reader, h.reply[1], k, "read", 0)
          ELSE /\ gor' = IF h.spawn
                         THEN [gor EXCEPT ![Runner(k)] =
                                  [Local("processMessage") EXCEPT !.req = k]]
                         ELSE gor
               /\ UNCHANGED handed
    /\ UNCHANGED <<client, written, dropped, llm, inbound, page, clientVars, serverVars,
                   utilVars>>

\* readPump: ReadMessage returns an error (the peer went away, the read
\* deadline passed, the connection was closed); break
ClientReadError ==
    /\ Running /\ gor[Reader].pc = "read"
    /\ gor' = [gor EXCEPT ![Reader].pc = "close"]
    /\ UNCHANGED <<client, frames, handed, written, dropped, llm, inbound, page,
                   clientVars, serverVars, utilVars>>

\* processMessage: one step of goroutine g
Process(g, out) ==
    /\ Running /\ gor[g].pc \in ProcessLabels
    /\ out \in CASE gor[g].pc \in {"processMessage", "files"} -> {Failed}
                 [] gor[g].pc = "decode" -> FileChecks
                 [] OTHER -> Outcomes
    /\ LET k == gor[g].req
           r == processMessage(gor[g].pc, frames[k], gor[g].i, out)
           next == IF r.next = "return" THEN Home(g) ELSE r.next
       IN /\ llm' = IF r.call = ""
                    THEN llm
                    ELSE llm \cup {[call |-> r.call, req |-> k, out |-> out]}
          /\ IF r.reply # <<>>
             THEN CallSendJSON(g, r.reply[1], k, next, r.i)
             ELSE /\ gor' = [gor EXCEPT ![g].pc = next, ![g].i = r.i]
                  /\ UNCHANGED handed
    /\ UNCHANGED <<client, frames, written, dropped, inbound, page, clientVars,
                   serverVars, utilVars>>

\* sendJSON: if c.isClosed() { return }
SendJSONIsClosed(g) ==
    /\ Running /\ gor[g].pc = "sendJSON"
    /\ IF client.closed
       THEN /\ dropped' = dropped \cup {gor[g].env}
            /\ gor' = [gor EXCEPT ![g].pc = gor[g].after]
       ELSE /\ gor' = [gor EXCEPT ![g].pc = "select"]
            /\ UNCHANGED dropped
    /\ UNCHANGED <<client, frames, handed, written, llm, inbound, page, clientVars,
                   serverVars, utilVars>>

\* sendJSON: select { case c.send <- data: case <-time.After(5 * time.Second): }
SendJSONSelect(g) ==
    /\ Running /\ gor[g].pc = "select"
    /\ \/ /\ client.send.closes > 0
          /\ gor' = [gor EXCEPT ![g].pc = PanicSend]
          /\ UNCHANGED client
       \/ /\ client.send.closes = 0
          /\ Len(client.send.buf) < SendCap
          /\ client' = [client EXCEPT !.send.buf = Append(@, gor[g].env)]
          /\ gor' = [gor EXCEPT ![g].pc = gor[g].after]
       \/ /\ client.send.closes = 0
          /\ Len(client.send.buf) >= SendCap
          /\ gor' = [gor EXCEPT ![g].pc = "spill"]
          /\ UNCHANGED client
    /\ UNCHANGED <<frames, handed, written, dropped, llm, inbound, page, clientVars,
                   serverVars, utilVars>>

\* sendJSON after the timeout: the message goes to c.messageQueue under queueMu
SendJSONSpill(g) ==
    /\ Running /\ gor[g].pc = "spill"
    /\ client.queueMu = ""
    /\ client' = [client EXCEPT !.messageQueue = Append(@, gor[g].env)]
    /\ gor' = [gor EXCEPT ![g].pc = gor[g].after]
    /\ UNCHANGED <<frames, handed, written, dropped, llm, inbound, page, clientVars,
                   serverVars, utilVars>>

\* writePump: case message, ok := <-c.send; when the channel is closed and
\* empty, the close frame is written and writePump returns
ClientWriterRecv ==
    /\ Running /\ gor[Writer].pc = "recv"
    /\ IF client.send.buf # <<>>
       THEN /\ client' = [client EXCEPT !.send.buf = Tail(@)]
            /\ gor' = [gor EXCEPT ![Writer].pc = "WriteMessage",
                                  ![Writer].env = Head(client.send.buf)]
       ELSE /\ client.send.closes > 0
            /\ gor' = [gor EXCEPT ![Writer].pc = "close"]
            /\ UNCHANGED client
    /\ UNCHANGED <<frames, handed, written, dropped, llm, inbound, page, clientVars,
                   serverVars, utilVars>>

\* writePump: c.conn.WriteMessage(websocket.TextMessage, message) returns
ClientWriterWrite(writeOk) ==
    /\ Running /\ gor[Writer].pc = "WriteMessage"
    /\ IF writeOk /\ client.conn.closes = 0
       THEN /\ written' = Append(written, gor[Writer].env)
            /\ gor' = [gor EXCEPT ![Writer].pc = "recv", ![Writer].env = 0]
       ELSE /\ gor' = [gor EXCEPT ![Writer].pc = "requeue"]
            /\ UNCHANGED written
    /\ UNCHANGED <<client, frames, handed, dropped, llm, inbound, page, clientVars,
                   serverVars, utilVars>>

\* writePump after a failed write: the message goes to c.messageQueue; return
ClientWriterRequeue ==
    /\ Running /\ gor[Writer].pc = "requeue"
    /\ client.queueMu = ""
    /\ client' = [client EXCEPT !.messageQueue = Append(@, gor[Writer].env)]
    /\ gor' = [gor EXCEPT ![Writer].pc = "close"]
    /\ UNCHANGED <<frames, handed, written, dropped, llm, inbound, page, clientVars,
                   serverVars, utilVars>>

\* c.close() called by g: the deferred call of readPump and of writePump, and
\* the call of healthCheck on inactivity, after which each of them returns;
\* readPump's deferred call also runs while a panic of its sendJSON unwinds
ClientCloseCall(g) ==
    /\ Running /\ gor[g].pc \in {"close"} \cup (IF g = Reader THEN {PanicSend} ELSE {})
    /\ client' = ClientClose(client)
    /\ gor' = [gor EXCEPT ![g].pc = IF gor[g].pc = PanicSend THEN Recovered
                                    ELSE "done"]
    /\ UNCHANGED <<frames, handed, written, dropped, llm, inbound, page, clientVars,
                   serverVars, utilVars>>

\* writePump: case <-ticker.C, the ping is written or not
ClientWriterTick(writeOk) ==
    /\ Running /\ gor[Writer].pc = "recv"
    /\ IF writeOk /\ client.conn.closes = 0
       THEN UNCHANGED gor
       ELSE gor' = [gor EXCEPT ![Writer].pc = "close"]
    /\ UNCHANGED client
    /\ UNCHANGED <<frames, handed, written, dropped, llm, inbound, page, clientVars,
                   serverVars, utilVars>>

\* healthCheck: case <-ticker.C; inactive: time.Since(c.lastActivity) > 5 minutes
ClientHealthTick(inactive) ==
    /\ Running /\ gor[Health].pc = "tick"
    /\ IF client.closed
       THEN /\ gor' = [gor EXCEPT ![Health].pc = "done"]
            /\ UNCHANGED client
       ELSE IF inactive
            THEN /\ gor' = [gor EXCEPT ![Health].pc = "close"]
                 /\ UNCHANGED client
            ELSE /\ gor' = [gor EXCEPT ![Health].pc = "flushMessageQueue"]
                 /\ UNCHANGED client
    /\ UNCHANGED <<frames, handed, written, dropped, llm, inbound, page, clientVars,
                   serverVars, utilVars>>

\* variant of PutBack that appends the message at the end
PutBackLast(queue, message) == Append(queue, message)

\* flushMessageQueue: c.messageQueue = append([][]byte{message}, c.messageQueue...)
PutBack(queue, message) == <<message>> \o queue

\* flushMessageQueue: c.queueMu.Lock(); if len(c.messageQueue) == 0 { return }
FlushLock ==
    /\ Running /\ gor[Health].pc = "flushMessageQueue"
    /\ client.queueMu = ""
    /\ IF client.messageQueue = <<>>
       THEN /\ gor' = [gor EXCEPT ![Health].pc = "tick"]
            /\ UNCHANGED client
       ELSE /\ gor' = [gor EXCEPT ![Health].pc = "for"]
            /\ client' = [client EXCEPT !.queueMu = Health]
    /\ UNCHANGED <<frames, handed, written, dropped, llm, inbound, page, clientVars,
                   serverVars, utilVars>>

\* flushMessageQueue: for len(c.messageQueue) > 0 && !c.isClosed() { pop }
FlushLoop ==
    /\ Running /\ gor[Health].pc = "for"
    /\ IF client.messageQueue # <<>> /\ ~client.closed
       THEN /\ gor' = [gor EXCEPT ![Health].pc = "default",
                                  ![Health].env = Head(client.messageQueue)]
            /\ client' = [client EXCEPT !.messageQueue = Tail(@)]
       ELSE /\ gor' = [gor EXCEPT ![Health].pc = "tick"]
            /\ client' = [client EXCEPT !.queueMu = ""]
    /\ UNCHANGED <<frames, handed, written, dropped, llm, inbound, page, clientVars,
                   serverVars, utilVars>>

\* flushMessageQueue: select { case c.send <- message: default: put it back }
FlushSelect ==
    /\ Running /\ gor[Health].pc = "default"
    /\ IF client.send.closes > 0
       THEN /\ gor' = [gor EXCEPT ![Health].pc = PanicSend]
            /\ UNCHANGED client
       ELSE IF Len(client.send.buf) < SendCap
            THEN /\ client' = [client EXCEPT !.send.buf = Append(@, gor[Health].env)]
                 /\ gor' = [gor EXCEPT ![Health].pc = "for"]
            ELSE /\ client' = [client EXCEPT
                                  !.messageQueue = PutBack(@, gor[Health].env),
                                  !.queueMu = ""]
                 /\ gor' = [gor EXCEPT ![Health].pc = "tick"]
    /\ UNCHANGED <<frames, handed, written, dropped, llm, inbound, page, clientVars,
                   serverVars, utilVars>>

\* WebSocketHandler after the upgrade: the Client, writePump and healthCheck
\* started, readPump running
Upgraded ==
    /\ client = [closed |-> FALSE, send |-> [buf |-> <<>>, closes |-> 0],
                 conn |-> [closes |-> 0], messageQueue |-> <<>>, queueMu |-> ""]
    /\ gor = [g \in Goroutines |->
                 Local(CASE g = Reader -> "read"
                         [] g = Writer -> "recv"
                         [] g = Health -> "tick"
                         [] OTHER -> "none")]
    /\ frames = <<>>
    /\ handed = <<>>
    /\ written = <<>>
    /\ dropped = {}
    /\ llm = {}

\* a `message` request that fails the validation, and the reasons that apply
Rejected(req) ==
    /\ req.json /\ req.type = "message"
    /\ \/ req.provider = ""
       \/ req.prompt = "" /\ req.files = 0
       \/ req.files > MaxFilesPerRequest
Reasons(req) ==
    {r \in {ErrNoProvider, ErrEmptyMessage, ErrTooManyFiles} :
        \/ r = ErrNoProvider /\ req.provider = ""
        \/ r = ErrEmptyMessage /\ req.prompt = "" /\ req.files = 0
        \/ r = ErrTooManyFiles /\ req.files > MaxFilesPerRequest}

\* the frames a Client is sent
Requests ==
    {Malformed, PingRequest,
     Request("message", "", "hi", 0),
     Request("message", "OPENAI", "", 0),
     Request("message", "OPENAI", "hi", MaxFilesPerRequest + 1),
     Request("message", "OPENAI", "hi", 0),
     Request("message", "OPENAI", "", 1)}

\* the goroutines of the Client that read the frames in F and answer them
Handling(F) ==
    \/ \E req \in F : ClientReadFrame(req)
    \/ \E g \in Goroutines, out \in Outcomes \cup FileChecks : Process(g, out)
    \/ \E g \in Goroutines : SendJSONIsClosed(g)
    \/ \E g \in Goroutines : SendJSONSelect(g)
    \/ \E g \in Goroutines : SendJSONSpill(g)

\* the ways the Client gets closed
Closing ==
    \/ ClientReadError
    \/ ClientWriterRequeue
    \/ \E g \in {Reader, Writer, Health} : ClientCloseCall(g)
    \/ \E writeOk \in BOOLEAN : ClientWriterTick(writeOk)

\* healthCheck and its flushMessageQueue
Flushing ==
    \/ \E inactive \in BOOLEAN : ClientHealthTick(inactive)
    \/ FlushLock
    \/ FlushLoop
    \/ FlushSelect

\* NewManagedConnection, SetConnection and the goroutines of WebSocketHandlerV2
Served(cb) ==
    /\ mcState = "CONNECTED"
    /\ ctxDone = FALSE
    /\ SendQueue = [buf |-> <<>>, closed |-> FALSE]
    /\ connCloses = 0
    /\ circuitBreaker = cb
    /\ srvQueue = <<>>
    /\ pc = [t \in Tasks \cup {Checker} |->
                CASE t = Reader -> "read"
                  [] t = Writer -> "recv"
                  [] t \in {Health, Checker} -> "tick"
                  [] OTHER -> "idle"]
    /\ sending = [t \in Tasks |-> "none"]
    /\ sendErr = "none"
    /\ panicked = {}
    /\ toClosed = 0
    /\ closeCalls = 0
    /\ closeErrs = 0
    /\ inbound = NoRequest
    /\ Upgraded

InitServer == Served(NewCircuitBreaker(DefaultThreshold, Minute))

NextServer ==
    \/ \E t \in Tasks : CloseSetState(t)
    \/ \E t \in Tasks : CloseCancel(t)
    \/ \E t \in Tasks : CloseChan(t)
    \/ \E t \in Tasks : CloseConn(t)
    \/ \E t \in Tasks : SendCheck(t)
    \/ \E t \in Tasks : SendAllow(t)
    \/ \E t \in Tasks : SendSelect(t)
    \/ ReadError
    \/ \E req \in RequestsV2 : ReadFrame(req)
    \/ \E w \in Workers, ok \in BOOLEAN : Respond(w, ok)
    \/ WriterRecv
    \/ \E writeOk \in BOOLEAN : WriterWrite(writeOk)
    \/ WriterAppend
    \/ \E inactive \in BOOLEAN : HealthTick(inactive)

(***************************************************************************)
(* Package utils: CircuitBreaker.                                          *)
(***************************************************************************)
NCallers == 2       \* goroutines that call the breaker
MaxFailures == 6    \* largest failureCount explored
CbTicks == 6        \* clock advances, in units of half the breaker's timeout
MaxThreshold == 1   \* thresholds explored besides the default

Callers == 1..NCallers
Ops == {"Allow", "RecordSuccess", "RecordFailure"}

\* variant of RecordSuccess that closes after two successes
RecordSuccessEager(cb) ==
    LET c1 == [cb EXCEPT !.failureCount = 0]
    IN IF cb.state = "half-open"
       THEN LET c2 == [c1 EXCEPT !.successCount = @ + 1]
            IN IF c2.successCount >= 2 THEN [c2 EXCEPT !.state = "closed"] ELSE c2
       ELSE c1

\* variant of RecordSuccess that closes the breaker whatever its state
RecordSuccessCloses(cb) ==
    LET c1 == [cb EXCEPT !.failureCount = 0, !.successCount = @ + 1]
    IN IF c1.successCount >= 3 THEN [c1 EXCEPT !.state = "closed"] ELSE c1

\* CircuitBreaker.RecordSuccess()
RecordSuccess(cb) ==
    LET c1 == [cb EXCEPT !.failureCount = 0]
    IN IF cb.state = "half-open"
       THEN LET c2 == [c1 EXCEPT !.successCount = @ + 1]
            IN IF c2.successCount >= 3 THEN [c2 EXCEPT !.state = "closed"] ELSE c2
       ELSE c1

\* variant of RecordFailure that trips one failure later
RecordFailureLate(cb, t) ==
    LET c1 == [cb EXCEPT !.failureCount = @ + 1]
    IN IF cb.state = "half-open"
       THEN [c1 EXCEPT !.state = "open", !.nextAttempt = t + cb.timeout]
       ELSE IF c1.failureCount > c1.threshold
            THEN [c1 EXCEPT !.state = "open", !.nextAttempt = t + cb.timeout]
            ELSE c1

\* CircuitBreaker.RecordFailure() at time t
RecordFailure(cb, t) ==
    LET c1 == [cb EXCEPT !.failureCount = @ + 1]
    IN IF cb.state = "half-open"
       THEN [c1 EXCEPT !.state = "open", !.nextAttempt = t + cb.timeout]
       ELSE IF c1.failureCount >= c1.threshold
            THEN [c1 EXCEPT !.state = "open", !.nextAttempt = t + cb.timeout]
            ELSE c1

\* the body of method op on breaker cb at time t: its result and the breaker
\* it leaves
Method(op, cb, t) ==
    CASE op = "Allow" ->
            [res |-> IF Allow(cb, t).ok THEN "true" ELSE "false", cb |-> Allow(cb, t).cb]
      [] op = "RecordSuccess" -> [res |-> "void", cb |-> RecordSuccess(cb)]
      [] OTHER -> [res |-> "void", cb |-> RecordFailure(cb, t)]

Idle == [op |-> "none", pc |-> "idle", at |-> 0, res |-> "none", expect |-> "none",
         cb |-> NewCircuitBreaker(0, 0)]

\* variant of CanLock: a lock that excludes nobody
CanLockAlways(c) == TRUE

\* cb.mu.Lock() returns for caller c
CanLock(c) == mu = 0

\* caller c calls method op: cb.mu.Lock() has returned
CbLock(c, op) ==
    /\ calls[c].pc = "idle"
    /\ CanLock(c)
    /\ op = "RecordFailure" => circuitBreaker.failureCount < MaxFailures
    /\ mu' = c
    /\ calls' = [calls EXCEPT ![c] = [Idle EXCEPT !.op = op, !.pc = "read"]]
    /\ UNCHANGED <<cbHist, retry, clientVars, handlerVars, serverVars>>

\* the body reads the clock and the fields of the breaker
CbRead(c) ==
    /\ calls[c].pc = "read"
    /\ LET m == Method(calls[c].op, circuitBreaker, now)
           s == Method(calls[c].op, cbHist.seq, now)
       IN /\ calls' = [calls EXCEPT ![c] = [@ EXCEPT !.pc = "write", !.at = now,
                                                     !.res = m.res, !.expect = s.res,
                                                     !.cb = m.cb]]
          /\ cbHist' = [cbHist EXCEPT !.seq = s.cb]
    /\ UNCHANGED <<mu, retry, clientVars, handlerVars, serverVars>>

\* the history after caller c's method has written the fields
Recorded(c) ==
    LET op == calls[c].op
        before == circuitBreaker.state
        after == calls[c].cb.state
    IN [cbHist EXCEPT
          !.last = [op |-> op, res |-> calls[c].res, at |-> calls[c].at,
                    before |-> before, by |-> c],
          !.entryNext = IF after = "open" /\ before # "open"
                        THEN calls[c].at + circuitBreaker.timeout ELSE @,
          !.fails = IF op = "RecordFailure" THEN @ + 1
                    ELSE IF op = "RecordSuccess" THEN 0 ELSE @,
          !.succ = IF after = "half-open" /\ before # "half-open" THEN 0
                   ELSE IF op = "RecordSuccess" THEN Min(@ + 1, 3)
                   ELSE @]

\* the body writes the fields of the breaker
CbWrite(c) ==
    /\ calls[c].pc = "write"
    /\ circuitBreaker' = calls[c].cb
    /\ cbHist' = Recorded(c)
    /\ calls' = [calls EXCEPT ![c] = [@ EXCEPT !.pc = "unlock"]]
    /\ UNCHANGED <<mu, retry, clientVars, handlerVars, mcState, ctxDone, SendQueue, connCloses,
                   srvQueue, pc, sending, sendErr, panicked, toClosed, closeCalls,
                   closeErrs>>

\* the deferred cb.mu.Unlock(), and the return
CbUnlock(c) ==
    /\ calls[c].pc = "unlock"
    /\ mu' = 0
    /\ calls' = [calls EXCEPT ![c] = Idle]
    /\ UNCHANGED <<cbHist, retry, clientVars, handlerVars, serverVars>>

\* half of the breaker's timeout passes, up to `ticks` times
Pass(ticks) ==
    /\ now + circuitBreaker.timeout \div 2 <= ticks * (circuitBreaker.timeout \div 2)
    /\ now' = now + circuitBreaker.timeout \div 2
    /\ UNCHANGED <<cmVars, socks, timers, intervals, outVars, histVars, serverVars, handlerVars,
                   utilVars>>

Elapse == Pass(CbTicks)

NoHistory(cb) ==
    [seq |-> cb, entryNext |-> 0, fails |-> 0, succ |-> 0,
     last |-> [op |-> "none", res |-> "none", at |-> 0, before |-> "closed", by |-> 0]]

\* StartHealthCheck, case <-ticker.C of its select (the other case is HcDone):
\* mc.GetState() under mc.stateMu, then overdue: whether
\* time.Since(mc.lastPong) > PongTimeout
HcTick(overdue) ==
    /\ Alive /\ pc[Checker] = "tick"
    /\ Goto(Checker, IF mcState # "CONNECTED" THEN "tick"
                     ELSE IF overdue THEN "timeout" ELSE "sendPing")
    /\ UNCHANGED <<mcState, ctxDone, SendQueue, connCloses, circuitBreaker, srvQueue,
                   sending, sendErr, panicked, toClosed, closeCalls, closeErrs,
                   clientVars, handlerVars, utilVars>>

\* StartHealthCheck: mc.sendPing() returns; a write on a closed transport
\* returns an error
HcSendPing(pingOk) ==
    /\ Alive /\ pc[Checker] = "sendPing"
    /\ Goto(Checker, IF pingOk /\ connCloses = 0 THEN "RecordSuccess" ELSE "RecordFailure")
    /\ UNCHANGED <<mcState, ctxDone, SendQueue, connCloses, circuitBreaker, srvQueue,
                   sending, sendErr, panicked, toClosed, closeCalls, closeErrs,
                   clientVars, handlerVars, utilVars>>

\* StartHealthCheck: mc.circuitBreaker.RecordFailure() after a pong timeout or
\* a failed ping, RecordSuccess() after a ping, under cb.mu; failure counts up
\* to MaxFailures are explored
HcRecord ==
    /\ Alive /\ pc[Checker] \in {"timeout", "RecordFailure", "RecordSuccess"}
    /\ pc[Checker] # "RecordSuccess" => circuitBreaker.failureCount < MaxFailures
    /\ circuitBreaker' = IF pc[Checker] = "RecordSuccess"
                         THEN RecordSuccess(circuitBreaker)
                         ELSE RecordFailure(circuitBreaker, now)
    /\ Goto(Checker, "tick")
    /\ UNCHANGED <<mcState, ctxDone, SendQueue, connCloses, srvQueue, sending,
                   sendErr, panicked, toClosed, closeCalls, closeErrs, clientVars, handlerVars,
                   utilVars>>

\* StartHealthCheck: case <-mc.ctx.Done(): return
HcDone ==
    /\ Alive /\ pc[Checker] = "tick" /\ ctxDone
    /\ Goto(Checker, "done")
    /\ UNCHANGED <<mcState, ctxDone, SendQueue, connCloses, circuitBreaker, srvQueue,
                   sending, sendErr, panicked, toClosed, closeCalls, closeErrs,
                   clientVars, handlerVars, utilVars>>

(***************************************************************************)
(* Package utils: Retry.                                                   *)
(***************************************************************************)
MaxRetryAttempts == 3   \* largest maxAttempts explored

\* what fn returns as its error: nil, a net.Error, an *APIError, anything else
Nil == [kind |-> "nil", timeout |-> FALSE, status |-> 0]
NetError(timeout) == [kind |-> "net", timeout |-> timeout, status |-> 0]
APIError(status) == [kind |-> "api", timeout |-> FALSE, status |-> status]
OtherError == [kind |-> "other", timeout |-> FALSE, status |-> 0]
\* the error Retry makes up when its loop ends
Exhausted == [kind |-> "exhausted", timeout |-> FALSE, status |-> 0]

StatusCodes == {400, 401, 404, 429, 499, 500, 503, 599, 600}
FnErrors == {NetError(b) : b \in BOOLEAN} \cup {APIError(s) : s \in StatusCodes}
                \cup {OtherError}
InitialBackoffs == {1000, 20000}

\* variant of IsTemporaryError that takes every *APIError for temporary
IsTemporaryErrorAnyStatus(err) ==
    \/ err.kind = "net" /\ err.timeout
    \/ err.kind = "api"

\* IsTemporaryError(err)
IsTemporaryError(err) ==
    \/ err.kind = "net" /\ err.timeout
    \/ err.kind = "api" /\ (err.status = 429 \/ (err.status >= 500 /\ err.status < 600))

\* Retry(ctx, logger, maxAttempts, initialBackoff, fn) has been called
RetryCalled(maxAttempts, initial) ==
    [pc |-> "loop", maxAttempts |-> maxAttempts, initialBackoff |-> initial,
     attempt |-> 1, backoff |-> initial,
     running |-> 0, invocations |-> 0, errs |-> <<>>, sleeps |-> <<>>,
     result |-> [val |-> 0, err |-> Nil]]

NoRetry == [RetryCalled(0, 0) EXCEPT !.pc = "idle"]

\* variant of AfterFn that goes on after a success as after a temporary error
AfterFnIgnoresSuccess(r, err) ==
    LET r1 == [r EXCEPT !.running = @ - 1, !.errs = Append(@, err)]
    IN IF (err = Nil \/ IsTemporaryError(err)) /\ r.attempt < r.maxAttempts
       THEN [r1 EXCEPT !.pc = "sleep", !.sleeps = Append(@, r.backoff)]
       ELSE [r1 EXCEPT !.pc = "done", !.result = [val |-> 0, err |-> err]]

\* variant of AfterFn that sleeps after the last attempt as well
AfterFnSleepsLast(r, err) ==
    LET r1 == [r EXCEPT !.running = @ - 1, !.errs = Append(@, err)]
    IN IF err = Nil
       THEN [r1 EXCEPT !.pc = "done", !.result = [val |-> r.attempt, err |-> Nil]]
       ELSE IF IsTemporaryError(err)
            THEN [r1 EXCEPT !.pc = "sleep", !.sleeps = Append(@, r.backoff)]
            ELSE [r1 EXCEPT !.pc = "done", !.result = [val |-> 0, err |-> err]]

\* Retry's locals when fn has returned err: the number of the invocation
\* stands for the value it returned
AfterFn(r, err) ==
    LET r1 == [r EXCEPT !.running = @ - 1, !.errs = Append(@, err)]
    IN IF err = Nil
       THEN [r1 EXCEPT !.pc = "done", !.result = [val |-> r.attempt, err |-> Nil]]
       ELSE IF IsTemporaryError(err) /\ r.attempt < r.maxAttempts
            THEN [r1 EXCEPT !.pc = "sleep", !.sleeps = Append(@, r.backoff)]
            ELSE [r1 EXCEPT !.pc = "done", !.result = [val |-> 0, err |-> err]]

\* the loop condition: fn is invoked, or the loop ends
RetryLoop ==
    /\ retry.pc = "loop"
    /\ retry' = IF retry.attempt <= retry.maxAttempts
                THEN [retry EXCEPT !.pc = "fn", !.running = @ + 1, !.invocations = @ + 1]
                ELSE [retry EXCEPT !.pc = "done",
                                   !.result = [val |-> 0, err |-> Exhausted]]
    /\ UNCHANGED <<mu, calls, cbHist, clientVars, handlerVars, serverVars>>

\* fn returns
RetryFn(err) ==
    /\ retry.pc = "fn"
    /\ retry' = AfterFn(retry, err)
    /\ UNCHANGED <<mu, calls, cbHist, clientVars, handlerVars, serverVars>>

\* time.Sleep(backoff) returns; backoff *= 2; attempt++
RetrySlept ==
    /\ retry.pc = "sleep"
    /\ retry' = [retry EXCEPT !.pc = "loop", !.backoff = @ * 2, !.attempt = @ + 1]
    /\ UNCHANGED <<mu, calls, cbHist, clientVars, handlerVars, serverVars>>

InitUtil ==
    /\ mu = 0
    /\ calls = [c \in Callers |-> Idle]
    /\ cbHist = NoHistory(circuitBreaker)
    /\ retry = NoRetry

\* the events of the browser runtime
Runtime(lim) ==
    \/ \E s \in 1..MaxSocks : SockOpen(lim, s)
    \/ \E s \in 1..MaxSocks, code \in Codes : SockClose(lim, s, code)
    \/ \E s \in 1..MaxSocks, kind \in {"pong", "message", "malformed"} : SockMessage(lim, s, kind)
    \/ \E s \in 1..MaxSocks : SockError(lim, s)
    \/ \E t \in 1..MaxTimers : TimerFire(lim, t)
    \/ \E i \in 1..MaxIntervals : PingTick(lim, i)
    \/ Tick

(***************************************************************************)
(* Spec: the connection lifecycle with the default configuration; the      *)
(* application calls connect() and close() whenever it likes and submits   *)
(* no payload.                                                             *)
(***************************************************************************)
Full == Limits(MaxSocks, MaxTimers, FALSE)

Init == Constructed(DefaultMaxReconnectAttempts) /\ InitServer /\ InitUtil

Next ==
    \/ Connect(Full)
    \/ Close(Full)
    \/ Runtime(Full)

Spec == Init /\ [][Next]_vars

(***************************************************************************)
(* SpecAuto: the same with an application that calls connect() once, on    *)
(* the manager it has constructed, and leaves reconnection to the manager. *)
(***************************************************************************)
Auto == Limits(MaxSocks, MaxTimers, TRUE)

NextAuto ==
    \/ ConnectOnce(Auto)
    \/ Close(Auto)
    \/ Runtime(Auto)

SpecAuto == Init /\ [][NextAuto]_vars

(***************************************************************************)
(* SpecQueue: payloads submitted through send(), with a manager            *)
(* constructed with maxReconnectAttempts = QueueAttempts.                  *)
(***************************************************************************)
Small == Limits(QueueSocks, QueueTimers, FALSE)

InitQueue == Constructed(QueueAttempts) /\ InitServer /\ InitUtil

NextQueue ==
    \/ Connect(Small)
    \/ Send(Small)
    \/ Close(Small)
    \/ Runtime(Small)

SpecQueue == InitQueue /\ [][NextQueue]_vars

(***************************************************************************)
(* The ConnectionManager that static/js/script.js declares for itself and  *)
(* that the page runs (index.html loads script.js only): its state, its    *)
(* queue, its reconnect counter and timer, the pings of its interval and   *)
(* the loop of its flushMessageQueue.  The events it emits are left out.   *)
(***************************************************************************)
\* send(data); throws: whether ws.send() raises on this call
ScriptSend(p, data, throws) ==
    IF p.state # "connected" \/ throws
    THEN [p EXCEPT !.messageQueue = Append(@, data)]
    ELSE [p EXCEPT !.sent = Append(@, data)]

\* handleReconnect()
ScriptReconnect(p) ==
    IF p.reconnectAttempts >= ScriptMaxReconnectAttempts
    THEN [p EXCEPT !.state = "failed"]
    ELSE [p EXCEPT !.state = "reconnecting", !.reconnectAttempts = @ + 1,
                   !.reconnectTimer = TRUE]

\* connect(); throws: whether new WebSocket(url) raises
ScriptConnectCall(p, throws) ==
    IF p.state \in {"connecting", "connected"}
    THEN p
    ELSE IF throws
         THEN ScriptReconnect([p EXCEPT !.state = "connecting"])
         ELSE [p EXCEPT !.state = "connecting", !.socket = TRUE]

\* connect(), called once by the page and then by each reconnect timer
ScriptConnect(throws) ==
    /\ page.pc = "idle" /\ (~page.called \/ page.reconnectTimer)
    /\ page' = ScriptConnectCall([page EXCEPT !.called = TRUE,
                                              !.reconnectTimer = FALSE], throws)
    /\ UNCHANGED <<clientVars, serverVars, utilVars, protoVars, inbound>>

\* the page submits its next payload: handleFormSubmit returns unless
\* getState() is 'connected', and sendMessageToServer, which it calls in the
\* same turn, then reaches connectionManager.send(payload)
ScriptSubmit(throws) ==
    /\ page.pc = "idle" /\ page.state = "connected" /\ page.next < ScriptMsgs
    /\ page' = [ScriptSend(page, page.next + 1, throws) EXCEPT !.next = @ + 1]
    /\ UNCHANGED <<clientVars, serverVars, utilVars, protoVars, inbound>>

\* the interval of startPingPong fires on a connected manager whose last pong
\* is recent: this.send({ type: 'ping' }); with the pong overdue its
\* ws.close(1006, ...) raises and nothing changes
ScriptPing(throws) ==
    /\ page.pc = "idle" /\ page.state = "connected" /\ page.pings < ScriptPings
    /\ page' = [ScriptSend(page, 0, throws) EXCEPT !.pings = @ + 1]
    /\ UNCHANGED <<clientVars, serverVars, utilVars, protoVars, inbound>>

\* handleOpen: setState('connected'), reconnectAttempts = 0, then
\* flushMessageQueue up to its loop
ScriptOpen ==
    /\ page.pc = "idle" /\ page.state = "connecting"
    /\ page' = IF Len(page.messageQueue) = 0
               THEN [page EXCEPT !.state = "connected", !.reconnectAttempts = 0]
               ELSE [page EXCEPT !.state = "connected", !.reconnectAttempts = 0,
                                 !.pc = "while",
                                 !.start = Len(page.messageQueue), !.attempts = 0]
    /\ UNCHANGED <<clientVars, serverVars, utilVars, protoVars, inbound>>

\* flushMessageQueue: while (this.messageQueue.length > 0) { shift(); send() }
ScriptFlush(throws) ==
    /\ page.pc = "while" /\ page.attempts < MaxResends
    /\ page' = IF Len(page.messageQueue) > 0
               THEN [ScriptSend([page EXCEPT !.messageQueue = Tail(@)],
                                Head(page.messageQueue), throws)
                        EXCEPT !.attempts = @ + 1]
               ELSE [page EXCEPT !.pc = "idle"]
    /\ UNCHANGED <<clientVars, serverVars, utilVars, protoVars, inbound>>

\* the close event of the socket, in whatever state the manager is:
\* handleClose does setState('disconnected'), and handleReconnect() unless the
\* code is 1000
ScriptClose(code) ==
    /\ page.pc = "idle" /\ page.socket
    /\ page' = IF code # NormalClosure
               THEN ScriptReconnect([page EXCEPT !.state = "disconnected",
                                                 !.socket = FALSE])
               ELSE [page EXCEPT !.state = "disconnected", !.socket = FALSE]
    /\ UNCHANGED <<clientVars, serverVars, utilVars, protoVars, inbound>>

\* close(): stopPingPong, clearTimeout(this.reconnectTimer),
\* this.ws.close(1000, ...) when there is a socket, setState('closed'); the
\* close event of a live socket follows later
ScriptCloseCall ==
    /\ page.pc = "idle"
    /\ page' = [page EXCEPT !.state = "closed", !.reconnectTimer = FALSE]
    /\ UNCHANGED <<clientVars, serverVars, utilVars, protoVars, inbound>>

(***************************************************************************)
(* SpecScript: the manager of script.js with the payloads the page submits.*)
(***************************************************************************)
NextScript ==
    \/ \E throws \in BOOLEAN : ScriptConnect(throws)
    \/ \E throws \in BOOLEAN : ScriptSubmit(throws)
    \/ \E throws \in BOOLEAN : ScriptPing(throws)
    \/ ScriptOpen
    \/ \E throws \in BOOLEAN : ScriptFlush(throws)
    \/ \E code \in Codes : ScriptClose(code)
    \/ ScriptCloseCall

SpecScript == Init /\ [][NextScript]_vars

(***************************************************************************)
(* SpecServer: one connection served by WebSocketHandlerV2.                *)
(***************************************************************************)
SpecServer == Init /\ [][NextServer]_vars

(***************************************************************************)
(* SpecBreaker: one CircuitBreaker called by NCallers goroutines.          *)
(***************************************************************************)
InitBreaker ==
    /\ Constructed(DefaultMaxReconnectAttempts)
    /\ \E T \in (1..MaxThreshold) \cup {DefaultThreshold} :
          Served(NewCircuitBreaker(T, Minute))
    /\ InitUtil

NextBreaker ==
    \/ \E c \in Callers, op \in Ops : CbLock(c, op)
    \/ \E c \in Callers : CbRead(c)
    \/ \E c \in Callers : CbWrite(c)
    \/ \E c \in Callers : CbUnlock(c)
    \/ Elapse

SpecBreaker == InitBreaker /\ [][NextBreaker]_vars

(***************************************************************************)
(* SpecHealth: the health check of the ConnectionManager over a clock that *)
(* runs past pongTimeout.  The interval keeps firing.                      *)
(***************************************************************************)
HealthTicks == 3    \* clock advances, in units of pingInterval

One == Limits(QueueSocks, QueueTimers, FALSE)

\* pingInterval milliseconds pass
TickHealth ==
    /\ now + pingInterval <= HealthTicks * pingInterval
    /\ now' = now + pingInterval
    /\ trace' = <<>> /\ ret' = "none"
    /\ UNCHANGED <<cmVars, socks, timers, intervals, histVars, serverVars, handlerVars, utilVars>>

\* the interval of the health check fires
PingTicks == \E i \in 1..MaxIntervals : PingTick(One, i)

NextHealth ==
    \/ ConnectOnce(One)
    \/ \E s \in 1..MaxSocks : SockOpen(One, s)
    \/ \E s \in 1..MaxSocks, code \in Codes : SockClose(One, s, code)
    \/ \E s \in 1..MaxSocks, kind \in {"pong", "message", "malformed"} :
          SockMessage(One, s, kind)
    \/ \E t \in 1..MaxTimers : TimerFire(One, t)
    \/ PingTicks
    \/ TickHealth

SpecHealth ==
    /\ Init
    /\ [][NextHealth]_vars
    /\ WF_vars(PingTicks)

(***************************************************************************)
(* SpecManaged: a ManagedConnection whose owner runs StartHealthCheck,     *)
(* with the goroutines of ClientV2, in the first ManagedTicks ticks of the *)
(* clock and while it stays open: the peer sends well-formed requests and  *)
(* stays, no write fails, and healthCheck, whose limit of inactivity is    *)
(* five minutes, sends its pings.                                          *)
(***************************************************************************)
ManagedTicks == 3   \* clock advances, in units of half the breaker's timeout

NextManaged ==
    \/ ReadFrame(Request("message", "OPENAI", "hi", 0))
    \/ \E w \in Workers, ok \in BOOLEAN : Respond(w, ok)
    \/ \E t \in Tasks : SendCheck(t)
    \/ \E t \in Tasks : SendAllow(t)
    \/ \E t \in Tasks : SendSelect(t)
    \/ WriterRecv
    \/ WriterWrite(TRUE)
    \/ HealthTick(FALSE)
    \/ \E overdue \in BOOLEAN : HcTick(overdue)
    \/ \E pingOk \in BOOLEAN : HcSendPing(pingOk)
    \/ HcRecord
    \/ Pass(ManagedTicks)

SpecManaged == Init /\ [][NextManaged]_vars

(***************************************************************************)
(* SpecChecked: the same connection up to and through its Close(), with a  *)
(* peer that sends no frame: the pings of healthCheck are the only         *)
(* payloads, and Close() is called by readPump, writePump and healthCheck. *)
(***************************************************************************)
CheckedTicks == 1   \* clock advances, in units of half the breaker's timeout

NextChecked ==
    \/ \E t \in Tasks : CloseSetState(t)
    \/ \E t \in Tasks : CloseCancel(t)
    \/ \E t \in Tasks : CloseChan(t)
    \/ \E t \in Tasks : CloseConn(t)
    \/ \E t \in Tasks : SendCheck(t)
    \/ \E t \in Tasks : SendAllow(t)
    \/ \E t \in Tasks : SendSelect(t)
    \/ ReadError
    \/ WriterRecv
    \/ \E writeOk \in BOOLEAN : WriterWrite(writeOk)
    \/ WriterAppend
    \/ \E inactive \in BOOLEAN : HealthTick(inactive)
    \/ \E overdue \in BOOLEAN : HcTick(overdue)
    \/ \E pingOk \in BOOLEAN : HcSendPing(pingOk)
    \/ HcRecord
    \/ HcDone
    \/ Pass(CheckedTicks)

SpecChecked == Init /\ [][NextChecked]_vars

(***************************************************************************)
(* SpecRetry: one call of Retry.                                           *)
(***************************************************************************)
InitRetry ==
    /\ Constructed(DefaultMaxReconnectAttempts)
    /\ InitServer
    /\ mu = 0
    /\ calls = [c \in Callers |-> Idle]
    /\ cbHist = NoHistory(circuitBreaker)
    /\ \E N \in 0..MaxRetryAttempts, b \in InitialBackoffs : retry = RetryCalled(N, b)

NextRetry ==
    \/ RetryLoop
    \/ \E err \in FnErrors \cup {Nil} : RetryFn(err)
    \/ RetrySlept

SpecRetry == InitRetry /\ [][NextRetry]_vars

(***************************************************************************)
(* SpecProtocol: the frames of one connection served by handlers.Client.   *)
(***************************************************************************)
MaxUploads == 1     \* requests with attached files sent on one connection

Uploads == {k \in 1..Len(frames) : frames[k].files \in 1..MaxFilesPerRequest}

\* the requests the peer sends next; a request with attached files is the only
\* frame of its connection
ProtocolRequests ==
    {req \in Requests :
        /\ req.files \in 1..MaxFilesPerRequest =>
              Cardinality(Uploads) < MaxUploads /\ frames = <<>>
        /\ Uploads = {}}

NextProtocol ==
    \/ Handling(ProtocolRequests)
    \/ ClientWriterRecv
    \/ \E writeOk \in BOOLEAN : ClientWriterWrite(writeOk)
    \/ Closing
    \/ Flushing

SpecProtocol == Init /\ [][NextProtocol]_vars

(***************************************************************************)
(* SpecDelivery: the outbound path of a Client, with close() and the       *)
(* retry queue.                                                            *)
(***************************************************************************)
DeliveryRequests == {PingRequest, Request("message", "OPENAI", "hi", 0)}

NextDelivery ==
    \/ Handling(DeliveryRequests)
    \/ ClientWriterRecv
    \/ \E writeOk \in BOOLEAN : ClientWriterWrite(writeOk)
    \/ Closing
    \/ Flushing

SpecDelivery == Init /\ [][NextDelivery]_vars

(***************************************************************************)
(* SpecUpload: the outbound path of a Client that is sent requests with    *)
(* attached files.                                                         *)
(***************************************************************************)
UploadRequests == {req \in ProtocolRequests : req.files \in 1..MaxFilesPerRequest}

NextUpload ==
    \/ Handling(UploadRequests)
    \/ ClientWriterRecv
    \/ \E writeOk \in BOOLEAN : ClientWriterWrite(writeOk)
    \/ Closing
    \/ Flushing

SpecUpload == Init /\ [][NextUpload]_vars


(***************************************************************************)
(* Properties.                                                             *)
(***************************************************************************)
Last(seq) == seq[Len(seq)]
InQueue(i) == \E k \in 1..Len(messageQueue) : messageQueue[k].id = i
Live == {s \in 1..MaxSocks : socks[s].readyState \in {"CONNECTING", "OPEN"}}
Emits(tr, e) == CountIn(tr, <<"emit">> \o e)

\* C1: a payload with a provider submitted through send() while the manager is
\* not 'connected' is, in every reachable state, still in the retry queue or
\* has been handed to the transport: failed reconnects, exhaustion and close()
\* never remove it untransmitted.
C1_QueuedUntilTransmitted ==
    \A i \in accepted : InQueue(i) \/ txCount[i] > 0

\* a payload accepted while offline leaves the queue by being transmitted in the
\* flush of an open that follows an exhausted series of reconnects
C1_Witness ==
    /\ 1 \in accepted
    /\ failedEmits >= 1
    /\ Emits(trace, <<"connected">>) = 1
    /\ Sent(trace, 1) = 1
    /\ ~InQueue(1)

\* C2: the flush transmits in enqueue order and stops at the first failure, so
\* a payload queued later is never transmitted while one queued before it has
\* not been.
C2_FlushKeepsOrder ==
    \A i \in accepted, j \in accepted :
        (i < j /\ txCount[j] > 0) => txCount[i] > 0

\* C3: Close() is idempotent: the state enters Closed at most once, and no call
\* panics or returns an error.
C3_CloseIdempotent ==
    /\ toClosed <= 1
    /\ closeErrs = 0
    /\ \A t \in Tasks : pc[t] # "panic: close of closed channel"

\* C4: once close() has left the manager 'closed', and the application does
\* not call connect() again, the state stays 'closed', no reconnect timer is
\* pending and no transport starts connecting.
C4_ClosedIsFinal ==
    [][state = "closed" =>
          /\ state' = "closed"
          /\ timers' = {}
          /\ \A s \in 1..MaxSocks :
                socks'[s].readyState = "CONNECTING" => socks[s].readyState = "CONNECTING"]_vars

\* C5: when maxReconnectAttempts connect attempts in a row have failed after an
\* unexpected close, the manager is 'failed' (or has been closed since), has
\* emitted 'failed' exactly once, and has no reconnect timer pending and no
\* transport open or opening.
C5_GivesUp ==
    dropFails >= maxReconnectAttempts =>
        /\ state \in {"failed", "closed"}
        /\ failedEmits = 1
        /\ timers = {}
        /\ Live = {}

C5_Witness ==
    /\ dropFails = maxReconnectAttempts
    /\ state = "failed"
    /\ reconnectAttempts = DefaultMaxReconnectAttempts
    /\ Emits(trace, <<"failed">>) = 1

\* the delays of attempts 1, 2, ... in milliseconds
DelayTable == <<1000, 2000, 4000, 8000, 16000, 30000, 30000, 30000, 30000, 30000>>

\* C6: a handler that schedules a timeout or raises the attempt counter raises
\* it by one, to k, leaves the state 'reconnecting' and schedules exactly one
\* timeout, the one it keeps as reconnectTimer, with the delay
\* min(initialBackoff * 2^(k-1), maxBackoff): 1, 2, 4, 8, 16, 30, 30, ... s.
C6_Backoff ==
    [][(reconnectAttempts' > reconnectAttempts
            \/ \E k \in 1..Len(trace') : trace'[k][1] = "setTimeout") =>
          /\ reconnectAttempts < maxReconnectAttempts
          /\ reconnectAttempts' = reconnectAttempts + 1
          /\ state' = "reconnecting"
          /\ SelectSeq(trace', LAMBDA e : e[1] = "setTimeout")
                = <<<<"setTimeout", ToString(DelayTable[reconnectAttempts'])>>>>
          /\ reconnectTimer' \in timers']_vars

C6_Witness ==
    /\ reconnectAttempts = 7
    /\ state = "reconnecting"
    /\ \E k \in 1..Len(trace) : trace[k] = <<"setTimeout", "30000">>
    /\ reconnectTimer \in timers

\* C7: a close event handled in state 'connected' stops the health timer and
\* moves the state to 'disconnected' first; with a code other than 1000 the
\* reconnect procedure then runs (attempt 1 is scheduled), with code 1000 it
\* does not (nothing is scheduled, the state stays 'disconnected').
C7_UnexpectedClose ==
    [][(state = "connected" /\ trace' # <<>> /\ Len(Last(trace')) = 3
            /\ Last(trace')[2] = "disconnected") =>
          /\ pingTimer' = 0
          /\ (pingTimer # 0 => pingTimer \notin intervals')
          /\ <<"emit", "stateChange", "disconnected">> \in {trace'[1], trace'[2]}
          /\ IF Last(trace')[3] # ToString(NormalClosure)
             THEN /\ state' = "reconnecting"
                  /\ reconnectAttempts' = reconnectAttempts + 1
                  /\ SubSeq(trace', Len(trace') - 3, Len(trace') - 1)
                        = << <<"emit", "stateChange", "reconnecting">>,
                             <<"setTimeout", ToString(initialBackoff)>>,
                             <<"emit", "reconnecting">> >>
             ELSE /\ state' = "disconnected"
                  /\ reconnectAttempts' = reconnectAttempts
                  /\ timers' = timers
                  /\ Emits(trace', <<"reconnecting">>) = 0]_vars

C7_Witness ==
    /\ trace = << <<"clearInterval">>,
                  <<"emit", "stateChange", "disconnected">>,
                  <<"emit", "stateChange", "reconnecting">>,
                  <<"setTimeout", "1000">>,
                  <<"emit", "reconnecting">>,
                  <<"emit", "disconnected", "1006">> >>
    /\ pingTimer = 0
    /\ state = "reconnecting"

\* the ws.send() calls of a trace
Sends(tr) == SelectSeq(tr, LAMBDA e : e[1] = "ws.send")

\* C8: the handler of the open event sets the state to 'connected', the attempt
\* counter to 0 and lastPong to the current time, restarts the health timer so
\* that the one it starts is the only one active, then flushes the queue and
\* then emits 'connected': every queued payload is handed to the transport or
\* queued again, and the queue is empty when all were handed over.
C8_Open ==
    [][(trace' # <<>> /\ Last(trace') = <<"emit", "connected">>) =>
          /\ state' = "connected"
          /\ reconnectAttempts' = 0
          /\ lastPong' = now
          /\ pingTimer' # 0 /\ intervals' = {pingTimer'}
          /\ \E n \in 1..3 :
                /\ SubSeq(trace', 1, n) =
                      (IF state # "connected"
                       THEN << <<"emit", "stateChange", "connected">> >> ELSE <<>>)
                      \o (IF pingTimer # 0 THEN << <<"clearInterval">> >> ELSE <<>>)
                      \o << <<"setInterval">> >>
                /\ SubSeq(trace', n + 1, Len(trace') - 1) = Sends(trace')
          /\ \A k \in 1..Len(messageQueue) :
                \/ Sent(trace', messageQueue[k].id) > 0
                \/ \E j \in 1..Len(messageQueue') : messageQueue'[j] = messageQueue[k]
          /\ (Len(Sends(trace')) = Len(messageQueue)) => messageQueue' = <<>>]_vars

C8_Witness ==
    /\ trace # <<>> /\ Last(trace) = <<"emit", "connected">>
    /\ Sent(trace, 1) = 1 /\ Sent(trace, 2) = 1
    /\ messageQueue = <<>>
    /\ state = "connected" /\ reconnectAttempts = 0 /\ lastPong = now /\ now > 0
    /\ intervals = {pingTimer}

\* C9: at most one transport is open or opening at any time.
C9_OneTransport == Cardinality(Live) <= 1

\* C10: a send() while not 'connected' returns false; it appends the payload at
\* the tail of the queue when the payload has a provider and leaves the queue
\* alone when it has none; every element of the queue has a non-empty provider
\* in every state.
C10_QueueOnlyWithProvider ==
    [][/\ \A k \in 1..Len(messageQueue') : Truthy(messageQueue'[k].provider)
       /\ (nextMsg' = nextMsg + 1 /\ state # "connected") =>
             /\ ret' = "false"
             /\ IF nextMsg' \in accepted'
                THEN messageQueue' = Append(messageQueue, Payload(nextMsg', "OPENAI"))
                ELSE messageQueue' = messageQueue]_vars

C10_Witness ==
    /\ ret = "false"
    /\ nextMsg = 2 /\ accepted = {2}
    /\ state = "reconnecting"
    /\ messageQueue = <<Payload(2, "OPENAI")>>

\* the pong is overdue on a connected manager whose health check runs
Overdue ==
    /\ state = "connected"
    /\ pingTimer \in intervals
    /\ now - lastPong > pongTimeout

\* C12: when the pong is overdue on a connected manager, the health check
\* closes the transport and the unexpected-close path follows: the state
\* leaves 'connected' (unless a pong arrives first).
C12_DeadPeerReconnects ==
    /\ [][(Overdue /\ PingTicks) => socks'[ws].readyState = "CLOSING"]_vars
    /\ Overdue ~> (state # "connected" \/ now - lastPong <= pongTimeout)

\* C13: a send() made by the health check hands the ping to the transport: it
\* returns true, ws.send() is its only call and the retry queue is untouched;
\* a pong sets lastPong to the time of its receipt and emits nothing.
C13_PingPong ==
    [][/\ ret' # "none" =>
             /\ ret' = "true"
             /\ trace' = << <<"ws.send", ToString(Ping.id)>> >>
             /\ messageQueue' = messageQueue
       /\ (lastPong' # lastPong /\ Emits(trace', <<"connected">>) = 0) =>
             lastPong' = now /\ trace' = <<>>]_vars

\* the Send of goroutine t returns in this step
Returns(t) == pc[t] \in {"Send", "Allow", "select"} /\ pc'[t] = AfterSend(t)

\* C11: Send never discards a payload: when the state is not Connected, or
\* when the outbound queue stays full for the whole timeout, the payload is
\* appended to the retry queue and the call reports "queued"; when the
\* outbound queue takes the payload the call returns nil.
C11_SendNeverDiscards ==
    [][\A t \in Tasks :
          /\ (Returns(t) /\ pc[t] = "Send" /\ mcState # "CONNECTED") =>
                sendErr' = "queued" /\ srvQueue' = Append(srvQueue, sending[t])
          /\ (Returns(t) /\ pc[t] = "select" /\ ~ctxDone
                /\ Len(SendQueue.buf) >= SendQueueCap) =>
                sendErr' = "queued" /\ srvQueue' = Append(srvQueue, sending[t])
          /\ (Returns(t) /\ SendQueue' # SendQueue) =>
                /\ sendErr' = "nil"
                /\ SendQueue'.buf = Append(SendQueue.buf, sending[t])]_vars

\* C19: a Send that has found the connection Connected and finds the breaker
\* Open, before nextAttempt, returns ErrCircuitOpen in that step, without
\* entering the select and without touching the outbound queue or the
\* breaker; the error is none of the other three.
C19_FailFast ==
    [][\A t \in Tasks :
          (pc[t] = "Allow" /\ pc'[t] # "Allow"
              /\ circuitBreaker.state = "open" /\ now < circuitBreaker.nextAttempt) =>
                /\ Returns(t)
                /\ sendErr' = "ErrCircuitOpen"
                /\ sendErr' \notin {"nil", "ErrNotConnected", "ErrSendTimeout",
                                     "ErrConnectionClosed"}
                /\ SendQueue' = SendQueue
                /\ circuitBreaker' = circuitBreaker]_vars

C19_Witness ==
    /\ sendErr = "ErrCircuitOpen"
    /\ mcState = "CONNECTED"
    /\ circuitBreaker.state = "open" /\ now < circuitBreaker.nextAttempt
    /\ circuitBreaker.failureCount = DefaultThreshold
    /\ SendQueue.buf = <<>>
    /\ \A t \in Tasks : pc[t] \notin {"Send", "Allow", "select"}

\* caller c's method takes effect in this step, on a breaker in state s
Commits(c, op, s) ==
    /\ calls[c].pc = "write" /\ calls'[c].pc = "unlock"
    /\ calls[c].op = op
    /\ circuitBreaker.state = s

\* C14: on a Closed breaker Allow() returns true and changes nothing; a
\* RecordFailure() opens the breaker exactly when it is the threshold-th in a
\* row since the last RecordSuccess(), with nextAttempt = now + timeout, and
\* leaves it Closed otherwise; a RecordSuccess() sets the failure counter to 0.
C14_ClosedTrips ==
    [][\A c \in Callers :
          /\ Commits(c, "Allow", "closed") =>
                calls[c].res = "true" /\ circuitBreaker' = circuitBreaker
          /\ Commits(c, "RecordFailure", "closed") =>
                /\ circuitBreaker'.state = "open" <=> cbHist'.fails = circuitBreaker.threshold
                /\ circuitBreaker'.state \in {"open", "closed"}
                /\ circuitBreaker'.state = "open" =>
                      circuitBreaker'.nextAttempt = calls[c].at + circuitBreaker.timeout
          /\ Commits(c, "RecordSuccess", "closed") =>
                /\ circuitBreaker'.failureCount = 0
                /\ circuitBreaker'.state = "closed"]_vars

\* the default breaker opens on its fifth failure in a row
C14_Witness ==
    /\ circuitBreaker.threshold = DefaultThreshold
    /\ circuitBreaker.state = "open"
    /\ cbHist.last.op = "RecordFailure" /\ cbHist.last.before = "closed"
    /\ cbHist.fails = DefaultThreshold
    /\ cbHist.last.at > 0
    /\ circuitBreaker.nextAttempt = cbHist.last.at + Minute

\* C15: on an Open breaker, with nextAttempt the value set when it entered
\* Open, Allow() returns false and changes nothing at a time before
\* nextAttempt and returns true from nextAttempt on, moving the state to
\* HalfOpen with the success counter 0; RecordSuccess() and RecordFailure()
\* leave the state Open.
C15_OpenUntilNextAttempt ==
    [][\A c \in Callers :
          /\ Commits(c, "Allow", "open") =>
                IF calls[c].at >= cbHist.entryNext
                THEN /\ calls[c].res = "true"
                     /\ circuitBreaker'.state = "half-open"
                     /\ circuitBreaker'.successCount = 0
                ELSE /\ calls[c].res = "false"
                     /\ circuitBreaker' = circuitBreaker
          /\ (Commits(c, "RecordSuccess", "open") \/ Commits(c, "RecordFailure", "open")) =>
                circuitBreaker'.state = "open"]_vars

\* C16: on a HalfOpen breaker Allow() returns true and changes nothing; a
\* RecordSuccess() closes the breaker exactly when it is the third since the
\* breaker entered HalfOpen, and leaves it HalfOpen otherwise.
C16_HalfOpenCloses ==
    [][\A c \in Callers :
          /\ Commits(c, "Allow", "half-open") =>
                calls[c].res = "true" /\ circuitBreaker' = circuitBreaker
          /\ Commits(c, "RecordSuccess", "half-open") =>
                /\ circuitBreaker'.state = "closed" <=> cbHist'.succ = 3
                /\ circuitBreaker'.state \in {"closed", "half-open"}]_vars

C16_Witness ==
    /\ circuitBreaker.state = "closed"
    /\ cbHist.last.op = "RecordSuccess" /\ cbHist.last.before = "half-open"
    /\ cbHist.succ = 3

\* C17: on a HalfOpen breaker a RecordFailure() opens the breaker with
\* nextAttempt = now + timeout whatever the failure counter; and the success
\* counter is 0 whenever the breaker enters HalfOpen.
C17_HalfOpenFailure ==
    [][\A c \in Callers :
          /\ Commits(c, "RecordFailure", "half-open") =>
                /\ circuitBreaker'.state = "open"
                /\ circuitBreaker'.nextAttempt = calls[c].at + circuitBreaker.timeout
          /\ (calls[c].pc = "write" /\ calls'[c].pc = "unlock"
                /\ circuitBreaker.state # "half-open"
                /\ circuitBreaker'.state = "half-open") =>
                circuitBreaker'.successCount = 0]_vars

\* a failure after two successes reopens the default breaker although its
\* failure counter is 1, and the next episode starts from no success
C17_Witness ==
    /\ circuitBreaker.threshold = DefaultThreshold
    /\ circuitBreaker.state = "half-open"
    /\ circuitBreaker.successCount = 0
    /\ circuitBreaker.failureCount = 1
    /\ cbHist.last.op = "Allow" /\ cbHist.last.before = "open"
    /\ cbHist.last.at > circuitBreaker.nextAttempt
    /\ circuitBreaker.nextAttempt > Minute

\* C18: the calls of several goroutines take effect one at a time: at most one
\* caller is inside a method, each call returns what it returns in the
\* sequential execution of the same calls in lock order, and between calls
\* the breaker is the one that execution leaves.
C18_Serialized ==
    /\ Cardinality({c \in Callers : calls[c].pc # "idle"}) <= 1
    /\ \A c \in Callers :
          calls[c].pc \in {"write", "unlock"} => calls[c].res = calls[c].expect
    /\ (\A c \in Callers : calls[c].pc # "write") => circuitBreaker = cbHist.seq

\* a second caller's RecordFailure counts on top of the first caller's
C18_Witness ==
    /\ cbHist.last.by = 1 /\ cbHist.last.op = "RecordFailure"
    /\ calls[2].pc = "write" /\ calls[2].op = "RecordFailure"
    /\ calls[2].at = cbHist.last.at
    /\ circuitBreaker.failureCount = 1
    /\ calls[2].cb.failureCount = 2

\* C20: with maxAttempts >= 1 fn is invoked at least once before Retry
\* returns and never more than maxAttempts times, one invocation at a time;
\* an invocation that returns no error is the last one, and Retry returns
\* its value with a nil error.
C20_RetryInvocations ==
    retry.maxAttempts >= 1 =>
        /\ retry.invocations <= retry.maxAttempts
        /\ retry.running <= 1
        /\ retry.invocations = Len(retry.errs) + retry.running
        /\ retry.pc = "done" => retry.invocations >= 1
        /\ \A k \in 1..Len(retry.errs) :
              retry.errs[k] = Nil =>
                  /\ k = Len(retry.errs)
                  /\ retry.pc = "done"
                  /\ retry.result = [val |-> k, err |-> Nil]

\* the second of three allowed invocations succeeds
C20_Witness ==
    /\ retry.maxAttempts = 3
    /\ retry.pc = "done"
    /\ retry.invocations = 2
    /\ retry.errs = <<APIError(503), Nil>>
    /\ retry.result = [val |-> 2, err |-> Nil]

\* the two classes of errors, as the claims name them
Temporary(err) ==
    \/ err.kind = "net" /\ err.timeout
    \/ err.kind = "api" /\ (err.status = 429 \/ err.status \in 500..599)
Permanent(err) == err # Nil /\ ~Temporary(err)

\* C21: a temporary error of an attempt that is not the last is followed by
\* exactly one sleep and then by another invocation; a temporary error of
\* the last attempt ends Retry with that error and without a sleep.  With
\* maxAttempts = 3 and HTTP 503 every time: 3 invocations, 2 sleeps, and the
\* third error returned.
C21_TemporaryRetried ==
    /\ Len(retry.sleeps) =
          Cardinality({k \in 1..Len(retry.errs) :
                          Temporary(retry.errs[k]) /\ k < retry.maxAttempts})
    /\ \A k \in 1..Len(retry.errs) :
          Temporary(retry.errs[k]) =>
              IF k < retry.maxAttempts
              THEN /\ Len(retry.sleeps) >= k
                   /\ retry.pc = "done" => Len(retry.errs) > k
              ELSE /\ retry.pc = "done"
                   /\ retry.result = [val |-> 0, err |-> retry.errs[k]]
                   /\ Len(retry.sleeps) = k - 1
                   /\ retry.invocations = k
    /\ ( /\ retry.maxAttempts = 3
         /\ retry.pc = "done"
         /\ \A k \in 1..Len(retry.errs) : retry.errs[k] = APIError(503) )
       => /\ retry.invocations = 3
          /\ Len(retry.sleeps) = 2
          /\ retry.result.err = APIError(503)

C21_Witness ==
    /\ retry.maxAttempts = 3
    /\ retry.pc = "done"
    /\ retry.errs = <<APIError(503), APIError(503), APIError(503)>>
    /\ retry.invocations = 3
    /\ Len(retry.sleeps) = 2
    /\ retry.result = [val |-> 0, err |-> APIError(503)]

\* C22: a permanent error, whatever the attempt, ends Retry at once: it is
\* the error returned, no sleep follows it and fn is not invoked again.
C22_PermanentReturned ==
    \A k \in 1..Len(retry.errs) :
        Permanent(retry.errs[k]) =>
            /\ k = Len(retry.errs)
            /\ retry.pc = "done"
            /\ retry.result = [val |-> 0, err |-> retry.errs[k]]
            /\ retry.invocations = k
            /\ retry.running = 0
            /\ Len(retry.sleeps) = k - 1

C22_Witness ==
    /\ retry.maxAttempts = 3
    /\ retry.pc = "done"
    /\ retry.errs = <<APIError(503), APIError(404)>>
    /\ retry.invocations = 2
    /\ Len(retry.sleeps) = 1
    /\ retry.result = [val |-> 0, err |-> APIError(404)]

\* C23: the k-th sleep of Retry lasts min(initialBackoff * 2^(k-1),
\* maxBackoff), with maxBackoff = 30 s.
C23_BackoffCapped ==
    \A k \in 1..Len(retry.sleeps) :
        retry.sleeps[k] = Min(retry.initialBackoff * Pow2(k - 1), maxBackoff)

\* the envelopes handed to sendJSON for frame k, and the final ones among them
HandedFor(k) == {n \in 1..Len(handed) : handed[n].req = k}
Finals(k) == {n \in HandedFor(k) : handed[n].env.status \in {"completed", "error"}}
\* the handling of frame k has not returned yet
Busy(k) ==
    \E g \in Goroutines : gor[g].req = k /\ gor[g].pc \notin {"none", "done", "read"}
WrittenOf(S) == {i \in 1..Len(written) : written[i] \in S}

\* C24: a message frame with an empty provider, or with an empty prompt and
\* no file, or with more than MaxFilesPerRequest files is answered by the
\* reader with exactly one status:error envelope that names the reason; no
\* processMessage is started for it and neither the file processor nor an
\* LLM client is called.
C24_Validation ==
    \A k \in 1..Len(frames) :
        Rejected(frames[k]) =>
            /\ Cardinality(HandedFor(k)) = 1
            /\ \A n \in HandedFor(k) :
                  /\ handed[n].by = Reader
                  /\ \E r \in Reasons(frames[k]) : handed[n].env = ErrorResponse(r)
            /\ \A c \in llm : c.req # k
            /\ \A g \in Goroutines \ {Reader} : gor[g].req # k

C24_Witness ==
    \E k \in 1..Len(frames), i \in 1..Len(written) :
        /\ frames[k] = Request("message", "", "hi", 0)
        /\ handed[written[i]] =
              [env |-> ErrorResponse(ErrNoProvider), req |-> k, by |-> Reader]
        /\ llm = {}

\* the final envelopes of frame k, given whether its processing succeeded:
\* never two, and one once its handling has returned; `completed` with the
\* text SendPrompt returned and the provider of the request when it succeeded,
\* `error` otherwise; not dropped on an open connection, never written twice
OneFinal(k, succeeded) ==
    /\ Cardinality(Finals(k)) <= 1
    /\ ~Busy(k) => Cardinality(Finals(k)) = 1
    /\ Cardinality(WrittenOf(Finals(k))) <= 1
    /\ \A n \in Finals(k) :
          /\ ~client.closed => n \notin dropped
          /\ IF succeeded
             THEN /\ handed[n].env.status = "completed"
                  /\ handed[n].env.provider = frames[k].provider
                  /\ \E c \in llm :
                        /\ c.req = k /\ c.call = "SendPrompt"
                        /\ handed[n].env.response = c.out.text
             ELSE /\ handed[n].env.status = "error"
                  /\ handed[n].env.response # ""

\* C25: every text frame that is not a ping gets exactly one final envelope,
\* `completed` exactly when the validation passed and the file ingestion
\* (the checks of every file and every ProcessFile call), GetClient and
\* SendPrompt succeeded, and `error` otherwise.
C25_EveryFailureIsError ==
    \A k \in 1..Len(frames) :
        ~(frames[k].json /\ frames[k].type = "ping") =>
            OneFinal(k, /\ frames[k].json /\ ~Rejected(frames[k])
                        /\ \A c \in llm : c.req = k => c.out.ok)

\* where the reader is inside its own sendJSON, and where it is once it has
\* left its loop (ReadMessage failed, or its sendJSON panicked)
Answering == {"sendJSON", "select", "spill"}
Left == {"close", "done", PanicSend, Recovered}

\* C26: request processing never runs on the reader's goroutine, so while a
\* SendPrompt call is in flight the reader, unless it is handing over an
\* answer of its own or has left its loop, is in ReadMessage and can read a
\* ping frame.
C26_ReaderNotBlocked ==
    /\ gor[Reader].pc \notin ProcessLabels
    /\ ( /\ \E g \in Goroutines : gor[g].pc = "SendPrompt"
         /\ Running
         /\ gor[Reader].pc \notin Answering \cup Left
         /\ Len(frames) < MaxFrames )
       => ENABLED ClientReadFrame(PingRequest)

\* a ping read and answered on the transport while the LLM call of the frame
\* before it has not returned
C26_Witness ==
    /\ Len(frames) = 2
    /\ frames[2] = PingRequest
    /\ gor[Processor(1)].pc = "SendPrompt"
    /\ \E i \in 1..Len(written) :
          handed[written[i]] = [env |-> Pong, req |-> 2, by |-> Reader]

\* C27: a frame of type ping is answered with exactly one pong envelope and
\* nothing else, by Client and by ClientV2: no error envelope, and no request
\* processing.
C27_PingPong ==
    /\ \A k \in 1..Len(frames) :
          frames[k].json /\ frames[k].type = "ping" =>
              /\ \A n \in HandedFor(k) : handed[n].env = Pong
              /\ Cardinality(HandedFor(k)) = 1
              /\ \A c \in llm : c.req # k
    /\ inbound.json /\ inbound.type = "ping" =>
          /\ pc[Reader] = "Send" => sending[Reader] = "pong"
          /\ sending[Reader] # "error"

\* C28: a frame that is not a JSON envelope is answered by the reader with
\* exactly one error envelope; it starts no request processing and no call;
\* the reader's sendJSON returns into its loop, and unless the reader has
\* left the loop (ReadMessage failed, or that sendJSON panicked) it can read
\* every kind of next frame.
C28_Malformed ==
    \A k \in 1..Len(frames) :
        ~frames[k].json =>
            /\ Cardinality(HandedFor(k)) = 1
            /\ \A n \in HandedFor(k) :
                  /\ handed[n].by = Reader
                  /\ handed[n].env = ErrorResponse(ErrInvalidPayload)
            /\ \A c \in llm : c.req # k
            /\ \A g \in Goroutines \ {Reader} : gor[g].req # k
            /\ ( /\ k = Len(frames) /\ gor[Reader].pc \in Answering )
               => gor[Reader].after = "read"
            /\ ( /\ k = Len(frames) /\ k < MaxFrames /\ Running
                 /\ gor[Reader].pc \notin Answering \cup Left )
               => \A req \in Requests : ENABLED ClientReadFrame(req)

C28_Witness ==
    /\ Len(frames) = 2
    /\ frames[1] = Malformed
    /\ frames[2] = Request("message", "OPENAI", "hi", 0)
    /\ gor[Processor(2)].pc = "SendPrompt"
    /\ \E i \in 1..Len(written) :
          handed[written[i]] =
              [env |-> ErrorResponse(ErrInvalidPayload), req |-> 1, by |-> Reader]

\* C29: the envelopes one goroutine hands to sendJSON are written to the
\* transport in the order in which it handed them over.
C29_Fifo ==
    \A i, j \in 1..Len(written) :
        i < j /\ handed[written[i]].by = handed[written[j]].by
            => written[i] < written[j]

\* C30: no goroutine of a Client sends on the closed channel c.send.
C30_NoSendOnClosed == \A g \in Goroutines : gor[g].pc # PanicSend

\* C31: once a Close() of the ManagedConnection has returned, the reader, the
\* writer and the health check of the connection start no further Send (a
\* ping included) and no further Close().
C31_CloseStopsTasks ==
    [][connCloses >= 1 =>
          \A t \in {Reader, Writer, Health} :
              pc'[t] \in {"Send", "Close"} => pc'[t] = pc[t]]_vars

\* how often envelope n occurs in a sequence, and in the hands of a goroutine
\* that is sending, spilling, writing, re-queueing or flushing it; a goroutine
\* that panicked holds nothing
InSeq(s, n) == Cardinality({i \in 1..Len(s) : s[i] = n})
Held(n) ==
    Cardinality({g \in Goroutines :
                    /\ gor[g].env = n
                    /\ gor[g].pc \in {"sendJSON", "select", "spill", "WriteMessage",
                                      "requeue", "default"}})

\* the places envelope n is in: c.send, the retry queue, the transport, the
\* hands of a goroutine, or dropped by sendJSON on a closed Client
Places(n) ==
    InSeq(client.send.buf, n) + InSeq(client.messageQueue, n) + InSeq(written, n)
        + Held(n) + (IF n \in dropped THEN 1 ELSE 0)

\* envelope n is in the retry queue, or is the one the flush took out of it last
Spilled(n) == InSeq(client.messageQueue, n) > 0 \/ gor[Health].env = n

\* C32: c.messageQueue changes under c.queueMu only, which flushMessageQueue
\* holds from its first test to its return; no envelope is in two places, and
\* every envelope that went through the retry queue is in exactly one: in
\* the queue, with the flush or the writer that took it out, in c.send, or
\* written.  None is lost and none is duplicated.
C32_QueueExclusive ==
    /\ client.queueMu \in {"", Health}
    /\ client.queueMu = Health <=> gor[Health].pc \in {"for", "default", PanicSend}
    /\ \A n \in 1..Len(handed) :
          /\ Places(n) <= 1
          /\ Spilled(n) => Places(n) = 1

\* C33: a flush cycle takes the head of c.messageQueue only while the Client is
\* not closed, hands it to c.send behind what c.send holds and leaves the rest of
\* the queue as it is; when c.send has no room the message goes back to the
\* front of the queue, the rest keeps its order and the cycle ends; on a closed
\* Client the cycle hands nothing over.
C33_FlushInOrder ==
    [][gor'[Health] # gor[Health] =>
          /\ (gor[Health].pc = "for" /\ gor'[Health].pc = "default") =>
                /\ ~client.closed
                /\ gor'[Health].env = Head(client.messageQueue)
                /\ client'.messageQueue = Tail(client.messageQueue)
                /\ client'.send = client.send
          /\ (gor[Health].pc = "for" /\ gor'[Health].pc = "tick") =>
                /\ client.closed \/ client.messageQueue = <<>>
                /\ client'.messageQueue = client.messageQueue
                /\ client'.send = client.send
          /\ (gor[Health].pc = "default" /\ gor'[Health].pc = "for") =>
                /\ client'.send.buf = Append(client.send.buf, gor[Health].env)
                /\ client'.messageQueue = client.messageQueue
          /\ (gor[Health].pc = "default" /\ gor'[Health].pc = "tick") =>
                /\ Len(client.send.buf) = SendCap
                /\ client'.send = client.send
                /\ client'.messageQueue = <<gor[Health].env>> \o client.messageQueue
          /\ (gor[Health].pc \in {"for", "default"} /\ client.closed) =>
                client'.send = client.send]_vars

\* a flush cycle has just put a message back in front of another queued one
C33_Witness ==
    /\ gor[Health].pc = "tick" /\ ~client.closed
    /\ Len(client.messageQueue) >= 2
    /\ Head(client.messageQueue) = gor[Health].env

\* C34: when StartHealthCheck has dealt with a tick that found the connection
\* Connected and its last pong older than PongTimeout, the transport has been
\* closed and the connection is not Connected any more.
C34_DeadPeerClosed ==
    [][(pc[Checker] = "timeout" /\ pc'[Checker] # "timeout") =>
           mcState' # "CONNECTED" /\ connCloses' >= 1]_vars

\* C35: one cycle of the page's flushMessageQueue calls send() at most once for
\* each message that was in the queue when the cycle began.
C35_OneResendEach ==
    page.pc = "while" => page.attempts <= page.start

\* C36: whichever of readPump, writePump and healthCheck call close(), and in
\* whatever order, c.send and the transport are closed at most once, c.closed
\* goes from false to true once and never back, and a close() on a closed
\* Client changes nothing.
C36_CloseOnce ==
    [][/\ client'.send.closes <= 1 /\ client'.conn.closes <= 1
       /\ client'.closed <=> client'.send.closes = 1 /\ client'.conn.closes = 1
       /\ client.closed =>
             /\ client'.closed
             /\ client'.send.closes = client.send.closes
             /\ client'.conn.closes = client.conn.closes]_vars

\* readPump and writePump have both run their deferred close(), healthCheck
\* has returned, and the Client was closed once
C36_Witness ==
    /\ \A g \in {Reader, Writer, Health} : gor[g].pc = "done"
    /\ client.closed /\ client.send.closes = 1 /\ client.conn.closes = 1

\* C37: no payload submitted through send() of the ConnectionManager is in its
\* retry queue more than once, and none is handed to the transport more than
\* once.
C37_QueuedOnce ==
    \A i \in 1..MaxMsgs :
        /\ Cardinality({k \in 1..Len(messageQueue) : messageQueue[k].id = i}) <= 1
        /\ txCount[i] <= 1

\* C38: on a link whose transport is open and whose peer owes no pong (it has
\* received no ping), a tick of the health check leaves the manager
\* 'connected' and the transport open, and starts no reconnection.
C38_HealthyStaysConnected ==
    [][(/\ state = "connected" /\ txCount[Ping.id] = 0
        /\ ws # 0 /\ socks[ws].readyState = "OPEN"
        /\ PingTicks)
          => /\ state' = "connected" /\ socks'[ws].readyState = "OPEN"
             /\ timers' = timers /\ reconnectAttempts' = reconnectAttempts]_vars

\* a tick has found the pong overdue on an open transport, its close(1006)
\* has raised, and the manager is still 'connected'
C38_Witness ==
    /\ state = "connected" /\ txCount[Ping.id] = 0
    /\ ws # 0 /\ socks[ws].readyState = "OPEN"
    /\ now - lastPong > pongTimeout
    /\ trace = << <<"throw", "InvalidAccessError">> >>

\* C39: the attempt counter stays between 0 and maxReconnectAttempts, and a
\* handler that takes the manager into 'failed' does so with the counter at
\* maxReconnectAttempts.
C39_AttemptsBounded ==
    [][/\ 0 <= reconnectAttempts /\ reconnectAttempts <= maxReconnectAttempts
       /\ 0 <= reconnectAttempts' /\ reconnectAttempts' <= maxReconnectAttempts'
       /\ (state # "failed" /\ state' = "failed") =>
             reconnectAttempts' = maxReconnectAttempts']_vars

\* the manager has given up after its last attempt, no timer pending
C39_Witness ==
    /\ state = "failed" /\ reconnectAttempts = maxReconnectAttempts
    /\ reconnectAttempts > 0 /\ timers = {}

\* the changes of state the breaker may make
Edges ==
    {<<"closed", "open">>, <<"open", "half-open">>,
     <<"half-open", "closed">>, <<"half-open", "open">>}

\* C40: whatever Allow, RecordSuccess and RecordFailure calls are made, and by
\* whichever goroutines, a step that changes the state of the breaker takes it
\* Closed -> Open, Open -> HalfOpen, HalfOpen -> Closed or HalfOpen -> Open.
C40_Edges ==
    [][circuitBreaker'.state # circuitBreaker.state =>
          <<circuitBreaker.state, circuitBreaker'.state>> \in Edges]_vars

\* the breaker has gone round: tripped, half-opened by an Allow() after the
\* timeout, and closed again by the RecordSuccess() that took effect last
C40_Witness ==
    /\ cbHist.last.op = "RecordSuccess" /\ cbHist.last.before = "half-open"
    /\ circuitBreaker.state = "closed" /\ circuitBreaker.successCount = 3
    /\ cbHist.entryNext > 0
====
